----------------------------- MODULE PanelProofs -----------------------------
(***************************************************************************)
(* What the panel makes of the configuration: HotReload for any names,     *)
(* contents, edits and bounds, then MaskedKeys for any tabs and keys.      *)
(*                                                                         *)
(* The argument for the agreement of the runtime with config.toml: as long *)
(* as the watcher is up and the file can be read, either somebody is still *)
(* to read it, or what is queued, being applied or running is the file.    *)
(* The argument for masked keys: each mask in the copy of a tab that       *)
(* nobody interfered with stands for the key that is stored at its place,  *)
(* and every PUT of the tab that is under way carries that mask, so it is  *)
(* still so when that PUT comes first; what is sent then stays right.      *)
(*                                                                         *)
(* What a change sets going comes to rest: every step uses up some of the  *)
(* work it left (Work), and until then somebody has a next step.           *)
(***************************************************************************)
EXTENDS HotReload, MaskedKeys, SequenceTheorems, TLAPS

\* What a request has done so far, and what was acknowledged.
PanelInv ==
    /\ panel.pc # "idle" => ~editing
    /\ panel.pc = "rename" => tmp = panel.config
    /\ panel.pc = "apply" => file = panel.config
    /\ editing => acked = NoConfig
    /\ acked # NoConfig => file = acked

\* Without a watcher nothing is under way, and the parts are those of the start.
DownInv ==
    /\ ~up => watcher = "down"
    /\ watcher = "down" => ~event /\ queue = <<>> /\ reload = NotApplying /\ panel = NoRequest
    /\ up /\ watcher = "down" /\ Readable => LiveIsFile

Agreement ==
    WatcherUp /\ Readable =>
      \/ event
      \/ watcher \in {"debounce", "drained"}
      \/ queue # <<>> /\ queue[Len(queue)] = file
      \/ /\ queue = <<>> /\ reload # NotApplying /\ reload.config = file
         /\ \A k \in 1..8 : k < reload.next => live[Parts[k]] = file
      \/ queue = <<>> /\ reload = NotApplying /\ LiveIsFile

ReloadInv == TypeOK /\ PanelInv /\ DownInv /\ Agreement

LEMMA Constants ==
    /\ DefaultConfig \in Configs /\ EnvConfig \in Configs
    /\ InitialFiles \subseteq Configs \cup {Absent} /\ Edits \subseteq Configs
    /\ NewContent \in Contents
    /\ Absent \notin Configs /\ Unreadable \notin Configs /\ NoConfig \notin Configs
    /\ Absent # Unreadable
    /\ ChannelCapacity \in Nat \ {0} /\ MaxChanges \in Nat /\ MaxCrashes \in Nat
BY HotReloadAssumption DEF HotReloadAssumption

LEMMA PartFacts ==
    /\ \A k \in 1..8 : Parts[k] \in PartNames
    /\ \A p \in PartNames : \E k \in 1..8 : p = Parts[k]
    /\ "panel_config" \in PartNames
<1>1. Parts[2] = "panel_config"
  BY DEF Parts
<1>2. QED
  BY <1>1 DEF PartNames

\* What makes a configuration.
LEMMA ConfigIntro ==
    ASSUME NEW S \in SUBSET Names, NEW p \in [S -> Contents], NEW a \in S
    PROVE  [profiles |-> p, active |-> a] \in Configs
<1>1. p \in UNION {[T -> Contents] : T \in SUBSET Names}
  OBVIOUS
<1>2. DOMAIN p = S
  OBVIOUS
<1>3. QED
  BY <1>1, <1>2 DEF Configs

LEMMA ConfigElim ==
    ASSUME NEW c \in Configs
    PROVE  /\ c = [profiles |-> c.profiles, active |-> c.active]
           /\ DOMAIN c.profiles \subseteq Names /\ c.profiles \in [DOMAIN c.profiles -> Contents]
           /\ c.active \in DOMAIN c.profiles
<1>1. /\ c \in [profiles : UNION {[S -> Contents] : S \in SUBSET Names}, active : Names]
      /\ c.active \in DOMAIN c.profiles
  BY DEF Configs
<1>2. c = [profiles |-> c.profiles, active |-> c.active]
  BY <1>1
<1>3. PICK S \in SUBSET Names : c.profiles \in [S -> Contents]
  BY <1>1
<1>4. QED
  BY <1>1, <1>2, <1>3

\* What the handlers make of a configuration is one.
LEMMA ProfileFacts ==
    ASSUME NEW c \in Configs, NEW n \in Names
    PROVE  /\ \A x \in Contents : [c EXCEPT !.profiles = WithProfile(@, n, x)] \in Configs
           /\ n \in DOMAIN c.profiles => [c EXCEPT !.active = n] \in Configs
           /\ Without(c, n) \subseteq Configs
<1>1. /\ c = [profiles |-> c.profiles, active |-> c.active]
      /\ DOMAIN c.profiles \subseteq Names /\ c.profiles \in [DOMAIN c.profiles -> Contents]
      /\ c.active \in DOMAIN c.profiles
  BY ConfigElim
<1>2. ASSUME NEW x \in Contents PROVE [c EXCEPT !.profiles = WithProfile(@, n, x)] \in Configs
  <2>1. WithProfile(c.profiles, n, x) \in [DOMAIN c.profiles \cup {n} -> Contents]
    BY <1>1 DEF WithProfile
  <2>2. [c EXCEPT !.profiles = WithProfile(@, n, x)]
          = [profiles |-> WithProfile(c.profiles, n, x), active |-> c.active]
    BY <1>1
  <2>3. DOMAIN c.profiles \cup {n} \in SUBSET Names /\ c.active \in DOMAIN c.profiles \cup {n}
    BY <1>1
  <2>4. QED
    BY <2>1, <2>2, <2>3, ConfigIntro
<1>3. ASSUME n \in DOMAIN c.profiles PROVE [c EXCEPT !.active = n] \in Configs
  <2>1. [c EXCEPT !.active = n] = [profiles |-> c.profiles, active |-> n]
    BY <1>1
  <2>2. QED
    BY <1>1, <1>3, <2>1, ConfigIntro
<1>4. ASSUME NEW d \in Without(c, n) PROVE d \in Configs
  <2> DEFINE rest == [m \in DOMAIN c.profiles \ {n} |-> c.profiles[m]]
  <2>1. PICK a \in IF c.active = n THEN DOMAIN rest ELSE {c.active} :
          d = [profiles |-> rest, active |-> a]
    BY <1>4 DEF Without
  <2>2. rest \in [DOMAIN c.profiles \ {n} -> Contents] /\ DOMAIN c.profiles \ {n} \in SUBSET Names
    BY <1>1
  <2>3. a \in DOMAIN c.profiles \ {n}
    BY <1>1, <2>1
  <2>4. QED
    BY <2>1, <2>2, <2>3, ConfigIntro
<1>5. QED
  BY <1>2, <1>3, <1>4

-----------------------------------------------------------------------------
(***************************************************************************)
(* Type correctness.                                                       *)
(***************************************************************************)
LEMMA InitReload == Init => ReloadInv
<1> SUFFICES ASSUME Init PROVE ReloadInv
  OBVIOUS
<1>1. TypeOK
  <2>1. panel \in [op : Ops, pc : {"idle", "create", "write", "rename", "apply"},
                   config : Configs \cup {NoConfig}, next : 0..8]
        /\ panel = NoRequest /\ panel.pc = "idle" /\ panel.next = 0
    BY DEF Init, NoRequest, Ops
  <2>2. queue \in Seq(Configs) /\ Len(queue) <= ChannelCapacity
    BY Constants DEF Init
  <2>3. 0 \in 0..MaxChanges /\ 0 \in 0..MaxCrashes
    BY Constants
  <2>4. QED
    BY <2>1, <2>2, <2>3, Constants DEF Init, TypeOK
<1>2. QED
  BY <1>1 DEF Init, ReloadInv, PanelInv, DownInv, Agreement, WatcherUp, NoRequest

LEMMA SwapFacts ==
    ASSUME TypeOK, NEW k \in 1..8, NEW c \in Configs, Swap(k, c)
    PROVE  /\ live' \in [PartNames -> Configs \cup {NoConfig}]
           /\ live'[Parts[k]] = c
           /\ \A p \in PartNames : live'[p] = live[p] \/ live'[p] = c
           /\ up => \A p \in PartNames : live'[p] # NoConfig
<1>1. /\ live \in [PartNames -> Configs \cup {NoConfig}] /\ Parts[k] \in PartNames
      /\ up => \A p \in PartNames : live[p] # NoConfig
  BY PartFacts DEF TypeOK
<1>2. live' = [live EXCEPT ![Parts[k]] = c]
  BY DEF Swap
<1>3. QED
  BY <1>1, <1>2, Constants

LEMMA BootTyped == ASSUME TypeOK, Boot PROVE TypeOK'
<1>1. PICK c \in Configs : StartFrom(c)
  BY Constants DEF Boot, BootLoaded, BootMigrated, BootFresh, Readable
<1>2. live' \in [PartNames -> Configs \cup {NoConfig}] /\ (\A p \in PartNames : live'[p] # NoConfig)
      /\ up' = TRUE
  BY <1>1, Constants DEF StartFrom
<1>3. /\ file' \in Configs \cup {Absent, Unreadable} /\ tmp' \in Configs \cup {Absent, Unreadable}
      /\ dir' \in BOOLEAN
  BY Constants DEF TypeOK, Boot, BootLoaded, BootMigrated, BootFresh
<1>4. QED
  BY <1>2, <1>3 DEF TypeOK, Boot, bounds

\* The steps of the watcher and of the reload task.
LEMMA TasksTyped ==
    ASSUME TypeOK, StartWatching \/ Crash \/ Wake \/ Drain \/ LoadAndBroadcast \/ Receive \/ ReloadPart
    PROVE  TypeOK'
<1>1. CASE StartWatching \/ Wake \/ Drain
  <2>1. /\ UNCHANGED <<file, tmp, dir, legacyEnv, up, live, queue, reload, panel, editing, acked,
                       changes, crashes>>
        /\ watcher' \in {"failed", "idle", "debounce", "drained"} /\ event' \in BOOLEAN
    BY <1>1 DEF StartWatching, Wake, Drain, bounds, TypeOK
  <2>2. QED
    BY <2>1 DEF TypeOK
<1>2. CASE Crash
  <2>1. /\ live' \in [PartNames -> Configs \cup {NoConfig}] /\ queue' \in Seq(Configs)
        /\ Len(queue') <= ChannelCapacity /\ crashes' \in 0..MaxCrashes
    BY <1>2, Constants DEF Crash, TypeOK
  <2>2. panel' \in [op : Ops, pc : {"idle", "create", "write", "rename", "apply"},
                    config : Configs \cup {NoConfig}, next : 0..8]
        /\ panel' = NoRequest /\ panel'.pc = "idle" /\ panel'.next = 0
    BY <1>2 DEF Crash, NoRequest, Ops
  <2>3. QED
    BY <1>2, <2>1, <2>2 DEF Crash, TypeOK
<1>3. CASE LoadAndBroadcast
  <2>1. queue' \in Seq(Configs) /\ Len(queue') <= ChannelCapacity
    <3>1. CASE ~Readable
      BY <1>3, <3>1 DEF LoadAndBroadcast, TypeOK
    <3>2. CASE Readable /\ Len(queue) < ChannelCapacity
      BY <1>3, <3>2, Constants DEF LoadAndBroadcast, TypeOK, Readable, Broadcast
    <3>3. CASE Readable /\ ~(Len(queue) < ChannelCapacity)
      <4>1. queue \in Seq(Configs) /\ Len(queue) = ChannelCapacity /\ queue # <<>> /\ file \in Configs
        BY <3>3, Constants DEF TypeOK, Readable
      <4>2. queue' = Append(Tail(queue), file)
        BY <1>3, <3>3 DEF LoadAndBroadcast, Broadcast
      <4>3. QED
        BY <4>1, <4>2, Constants
    <3>4. QED
      BY <3>1, <3>2, <3>3
  <2>2. QED
    BY <1>3, <2>1 DEF LoadAndBroadcast, TypeOK, bounds
<1>4. CASE Receive
  <2>1. queue \in Seq(Configs) /\ queue # <<>> /\ Len(queue) <= ChannelCapacity
    BY <1>4 DEF Receive, TypeOK
  <2>2. /\ queue' \in Seq(Configs) /\ Len(queue') <= ChannelCapacity
        /\ reload' \in [config : Configs, next : 1..8]
    BY <1>4, <2>1, Constants DEF Receive
  <2>3. QED
    BY <1>4, <2>2 DEF Receive, TypeOK, bounds
<1>5. CASE ReloadPart
  <2>1. reload \in [config : Configs, next : 1..8] /\ Swap(reload.next, reload.config)
    BY <1>5 DEF ReloadPart, TypeOK, NotApplying
  <2>2. live' \in [PartNames -> Configs \cup {NoConfig}] /\ (up => \A p \in PartNames : live'[p] # NoConfig)
    BY <2>1, SwapFacts
  <2>3. reload' \in {NotApplying} \cup [config : Configs, next : 1..8]
    BY <1>5, <2>1 DEF ReloadPart
  <2>4. QED
    BY <1>5, <2>2, <2>3 DEF ReloadPart, TypeOK, bounds
<1>6. QED
  BY <1>1, <1>2, <1>3, <1>4, <1>5

\* A request begins: its configuration is made from the running one.
LEMMA BeginsFacts ==
    ASSUME TypeOK, UpdateConfig \/ CreateProfile \/ UpdateProfile \/ DeleteProfile \/ ActivateProfile
    PROVE  \E op \in Ops, c \in Configs : Handle(op, c)
<1>1. CASE UpdateConfig
  BY <1>1, Constants DEF UpdateConfig, Ops
<1>2. CASE CreateProfile \/ UpdateProfile \/ DeleteProfile \/ ActivateProfile
  <2>1. Serving
    BY <1>2 DEF CreateProfile, UpdateProfile, DeleteProfile, ActivateProfile
  <2>2. Current \in Configs
    BY <2>1, PartFacts DEF Current, TypeOK, Serving
  <2>3. CASE CreateProfile
    BY <2>2, <2>3, ProfileFacts, Constants DEF CreateProfile, Ops
  <2>4. CASE UpdateProfile
    BY <2>2, <2>4, ProfileFacts DEF UpdateProfile, Ops
  <2>5. CASE DeleteProfile
    BY <2>2, <2>5, ProfileFacts DEF DeleteProfile, Ops
  <2>6. CASE ActivateProfile
    BY <2>2, <2>6, ProfileFacts DEF ActivateProfile, Ops
  <2>7. QED
    BY <1>2, <2>3, <2>4, <2>5, <2>6
<1>3. QED
  BY <1>1, <1>2

\* The steps of a handler up to its answer, and edits by hand.
LEMMA HandlerTyped ==
    ASSUME TypeOK, PanelInv,
           \/ UpdateConfig \/ CreateProfile \/ UpdateProfile \/ DeleteProfile \/ ActivateProfile
           \/ TriggerRestart \/ CreateTmp \/ WriteTmp \/ Rename \/ SaveFails \/ ApplyPart \/ HangUp
           \/ BeginEdit \/ EndEdit
    PROVE  TypeOK'
<1> DEFINE Typed(p) == /\ p \in [op : Ops, pc : {"idle", "create", "write", "rename", "apply"},
                                 config : Configs \cup {NoConfig}, next : 0..8]
                       /\ p.pc = "idle" => p = NoRequest
                       /\ p.pc # "idle" => p.config \in Configs
                       /\ p.next \in IF p.pc = "apply" THEN 1..8 ELSE {0}
<1>1. Typed(panel) /\ Typed(NoRequest)
  BY DEF TypeOK, NoRequest, Ops
<1>2. CASE UpdateConfig \/ CreateProfile \/ UpdateProfile \/ DeleteProfile \/ ActivateProfile
  <2>1. PICK op \in Ops, c \in Configs : Handle(op, c)
    BY <1>2, BeginsFacts
  <2>2. Typed(panel')
    BY <2>1 DEF Handle
  <2>3. changes' \in 0..MaxChanges
    BY <2>1, Constants DEF Handle, OneAtATime, TypeOK
  <2>4. QED
    BY <2>1, <2>2, <2>3 DEF Handle, TypeOK, processVars
<1>3. CASE TriggerRestart
  <2>1. Typed(panel')
    BY <1>3 DEF TriggerRestart, Readable, Ops
  <2>2. changes' \in 0..MaxChanges
    BY <1>3, Constants DEF TriggerRestart, OneAtATime, TypeOK
  <2>3. QED
    BY <1>3, <2>1, <2>2 DEF TriggerRestart, TypeOK, processVars
<1>4. CASE CreateTmp \/ WriteTmp \/ SaveFails \/ HangUp
  <2>1. Typed(panel')
    BY <1>1, <1>4 DEF CreateTmp, WriteTmp, SaveFails, HangUp
  <2>2. tmp' \in Configs \cup {Absent, Unreadable} /\ dir' \in BOOLEAN
    BY <1>1, <1>4 DEF CreateTmp, WriteTmp, SaveFails, HangUp, TypeOK
  <2>3. UNCHANGED <<file, legacyEnv, up, live, watcher, queue, reload, event, editing, acked,
                    changes, crashes>>
    BY <1>4 DEF CreateTmp, WriteTmp, SaveFails, HangUp, processVars, bounds
  <2>4. QED
    BY <2>1, <2>2, <2>3 DEF TypeOK
<1>5. CASE Rename
  <2>1. Typed(panel') /\ panel.config \in Configs /\ tmp = panel.config
    <3>1. panel.pc = "rename" /\ panel' = [panel EXCEPT !.pc = "apply", !.next = 1]
      BY <1>5 DEF Rename
    <3>2. tmp = panel.config
      BY <3>1 DEF PanelInv
    <3>3. Typed(panel')
      <4>1. /\ panel' \in [op : Ops, pc : {"idle", "create", "write", "rename", "apply"},
                            config : Configs \cup {NoConfig}, next : 0..8]
            /\ panel'.pc = "apply" /\ panel'.next = 1 /\ panel'.config = panel.config
        <5>1. panel \in [op : Ops, pc : {"idle", "create", "write", "rename", "apply"},
                          config : Configs \cup {NoConfig}, next : 0..8]
          BY DEF TypeOK
        <5>2. PICK q : q = [panel EXCEPT !.pc = "apply"]
          OBVIOUS
        <5>3. /\ q \in [op : Ops, pc : {"idle", "create", "write", "rename", "apply"},
                         config : Configs \cup {NoConfig}, next : 0..8]
              /\ q.pc = "apply" /\ q.config = panel.config
          BY <5>1, <5>2
        <5>4. panel' = [q EXCEPT !.next = 1]
          BY <3>1, <5>1, <5>2
        <5>5. QED
          BY <5>3, <5>4
      <4>2. panel.config \in Configs
        BY <1>1, <3>1
      <4>3. QED
        BY <4>1, <4>2
    <3>4. QED
      BY <1>1, <3>1, <3>2, <3>3
  <2>2. event' \in BOOLEAN
    BY <1>5 DEF Rename, Notify, WatcherUp, TypeOK
  <2>3. QED
    BY <1>5, <2>1, <2>2 DEF Rename, TypeOK, processVars, bounds
<1>6. CASE ApplyPart
  <2>1. panel.next \in 1..8 /\ panel.config \in Configs /\ Swap(panel.next, panel.config)
    BY <1>1, <1>6 DEF ApplyPart
  <2>2. live' \in [PartNames -> Configs \cup {NoConfig}] /\ (up => \A p \in PartNames : live'[p] # NoConfig)
    BY <2>1, SwapFacts
  <2>3. Typed(panel')
    BY <1>1, <1>6, <2>1 DEF ApplyPart
  <2>4. acked' \in Configs \cup {NoConfig}
    BY <1>6, <2>1 DEF ApplyPart, TypeOK
  <2>5. QED
    BY <1>6, <2>2, <2>3, <2>4 DEF ApplyPart, TypeOK, bounds
<1>7. CASE BeginEdit \/ EndEdit
  <2>1. file' \in Configs \cup {Unreadable} /\ editing' \in BOOLEAN
    BY <1>7, Constants DEF BeginEdit, EndEdit
  <2>2. event' \in BOOLEAN
    BY <1>7 DEF BeginEdit, EndEdit, Notify, WatcherUp, TypeOK
  <2>3. acked' \in Configs \cup {NoConfig} /\ changes' \in 0..MaxChanges
    BY <1>7, Constants DEF BeginEdit, EndEdit, TypeOK, OneAtATime, bounds
  <2>4. UNCHANGED <<tmp, dir, legacyEnv, up, live, watcher, queue, reload, panel, crashes>>
    BY <1>7 DEF BeginEdit, EndEdit, processVars, bounds
  <2>5. QED
    BY <2>1, <2>2, <2>3, <2>4 DEF TypeOK
<1>8. QED
  BY <1>2, <1>3, <1>4, <1>5, <1>6, <1>7

-----------------------------------------------------------------------------
(***************************************************************************)
(* What a request has done, and what was acknowledged.                     *)
(***************************************************************************)
LEMMA StepPanel == TypeOK /\ DownInv /\ PanelInv /\ [Next]_vars => PanelInv'
<1> SUFFICES ASSUME TypeOK, DownInv, PanelInv, [Next]_vars PROVE PanelInv'
  OBVIOUS
<1>1. CASE StartWatching \/ Wake \/ Drain \/ LoadAndBroadcast \/ Receive \/ ReloadPart \/ UNCHANGED vars
  <2>1. UNCHANGED <<file, tmp, panel, editing, acked>>
    BY <1>1 DEF StartWatching, Wake, Drain, LoadAndBroadcast, Receive, ReloadPart, vars
  <2>2. QED
    BY <2>1 DEF PanelInv
<1>2. CASE Boot
  <2>1. UNCHANGED <<panel, editing, acked>> /\ (UNCHANGED <<file, tmp>> \/ ~Readable)
    BY <1>2 DEF Boot, BootLoaded, BootMigrated, BootFresh
  <2>2. CASE UNCHANGED <<file, tmp>>
    BY <2>1, <2>2 DEF PanelInv
  <2>3. CASE ~Readable /\ BootMigrated
    <3>1. acked = NoConfig
      BY <2>3 DEF PanelInv, TypeOK, Readable
    <3>2. panel = NoRequest
      BY <2>3 DEF BootMigrated, DownInv
    <3>3. QED
      BY <2>1, <2>3, <3>1, <3>2 DEF PanelInv, NoRequest
  <2>4. QED
    BY <1>2, <2>2, <2>3 DEF Boot, BootLoaded, BootMigrated, BootFresh
<1>3. CASE Crash
  BY <1>3 DEF Crash, PanelInv, NoRequest
<1>4. CASE UpdateConfig \/ CreateProfile \/ UpdateProfile \/ DeleteProfile \/ ActivateProfile
  <2>1. PICK op, c : Handle(op, c)
    BY <1>4, BeginsFacts
  <2>2. QED
    BY <2>1 DEF Handle, OneAtATime, PanelInv
<1>5. CASE TriggerRestart
  BY <1>5 DEF TriggerRestart, OneAtATime, PanelInv
<1>6. CASE CreateTmp \/ WriteTmp \/ Rename
  <2>1. CASE CreateTmp \/ WriteTmp
    BY <1>6, <2>1 DEF CreateTmp, WriteTmp, PanelInv, TypeOK
  <2>2. CASE Rename
    <3>1. /\ panel.pc = "rename" /\ file' = tmp /\ acked' = NoConfig /\ editing' = editing
          /\ panel'.pc = "apply" /\ panel'.config = panel.config
      BY <2>2 DEF Rename, TypeOK
    <3>2. tmp = panel.config /\ ~editing
      BY <3>1 DEF PanelInv
    <3>3. QED
      BY <3>1, <3>2 DEF PanelInv
  <2>3. QED
    BY <1>6, <2>1, <2>2
<1>10. CASE SaveFails \/ HangUp
  BY <1>10 DEF SaveFails, HangUp, PanelInv, NoRequest
<1>7. CASE ApplyPart
  BY <1>7 DEF ApplyPart, PanelInv, TypeOK, NoRequest
<1>8. CASE BeginEdit \/ EndEdit
  BY <1>8 DEF BeginEdit, EndEdit, OneAtATime, PanelInv, bounds
<1>9. QED
  BY <1>1, <1>2, <1>3, <1>4, <1>5, <1>6, <1>7, <1>8, <1>10 DEF Next

\* Only an edit by hand makes the file unreadable.
LEMMA StepAtomic ==
    ASSUME TypeOK, PanelInv, [Next]_vars, file' = Unreadable
    PROVE  editing \/ file = Unreadable \/ editing'
<1>1. CASE Boot
  BY <1>1, Constants DEF Boot, BootLoaded, BootMigrated, BootFresh
<1>2. CASE Rename
  <2>1. file' = panel.config /\ panel.config \in Configs
    BY <1>2 DEF Rename, PanelInv, TypeOK
  <2>2. QED
    BY <2>1, Constants
<1>3. CASE BeginEdit \/ EndEdit
  BY <1>3 DEF BeginEdit, EndEdit
<1>4. CASE UpdateConfig \/ CreateProfile \/ UpdateProfile \/ DeleteProfile \/ ActivateProfile
  <2>1. PICK op, c : Handle(op, c)
    BY <1>4, BeginsFacts
  <2>2. QED
    BY <2>1 DEF Handle
<1>5. CASE \/ StartWatching \/ Crash \/ Wake \/ Drain \/ LoadAndBroadcast \/ Receive \/ ReloadPart
           \/ TriggerRestart \/ CreateTmp \/ WriteTmp \/ SaveFails \/ ApplyPart \/ HangUp \/ UNCHANGED vars
  <2>1. file' = file
    BY <1>5 DEF StartWatching, Crash, Wake, Drain, LoadAndBroadcast, Receive, ReloadPart, TriggerRestart,
                CreateTmp, WriteTmp, SaveFails, ApplyPart, HangUp, vars
  <2>2. QED
    BY <2>1
<1>6. QED
  BY <1>1, <1>2, <1>3, <1>4, <1>5 DEF Next

-----------------------------------------------------------------------------
(***************************************************************************)
(* The runtime follows the file.                                           *)
(***************************************************************************)
\* A part applied from the file, by the handler.
LEMMA ApplyKeeps ==
    ASSUME TypeOK, PanelInv, ApplyPart
    PROVE  /\ \A p \in PartNames : live'[p] = live[p] \/ live'[p] = file
           /\ UNCHANGED <<file, up, event, watcher, queue, reload>>
<1>1. panel.next \in 1..8 /\ panel.config \in Configs /\ Swap(panel.next, panel.config) /\ panel.config = file
  BY DEF ApplyPart, TypeOK, PanelInv
<1>2. QED
  BY <1>1, SwapFacts DEF ApplyPart

LEMMA StepDown == TypeOK /\ PanelInv /\ DownInv /\ [Next]_vars => DownInv'
<1> SUFFICES ASSUME TypeOK, PanelInv, DownInv, [Next]_vars PROVE DownInv'
  OBVIOUS
<1>1. CASE Boot
  <2>1. /\ watcher = "down" /\ ~up /\ up' = TRUE
        /\ UNCHANGED <<watcher, event, queue, reload, panel>>
    BY <1>1 DEF Boot, BootLoaded, BootMigrated, BootFresh, StartFrom, DownInv
  <2>2. Readable' => LiveIsFile'
    BY <1>1, Constants DEF Boot, BootLoaded, BootMigrated, BootFresh, StartFrom, Readable, LiveIsFile
  <2>3. QED
    BY <2>1, <2>2 DEF DownInv
<1>2. CASE StartWatching
  BY <1>2 DEF StartWatching, DownInv
<1>3. CASE Crash
  BY <1>3 DEF Crash, DownInv
<1>4. CASE Wake \/ Drain \/ LoadAndBroadcast
  <2>1. watcher' # "down" /\ up' = up /\ watcher # "down"
    BY <1>4 DEF Wake, Drain, LoadAndBroadcast
  <2>2. QED
    BY <2>1 DEF DownInv
<1>5. CASE Receive \/ ReloadPart \/ CreateTmp \/ WriteTmp \/ Rename \/ SaveFails \/ ApplyPart \/ HangUp
  <2>1. watcher # "down"
    BY <1>5 DEF Receive, ReloadPart, CreateTmp, WriteTmp, Rename, SaveFails, ApplyPart, HangUp,
                DownInv, NotApplying, NoRequest
  <2>2. watcher' = watcher /\ up' = up
    BY <1>5 DEF Receive, ReloadPart, CreateTmp, WriteTmp, Rename, SaveFails, ApplyPart, HangUp,
                processVars
  <2>3. QED
    BY <2>1, <2>2 DEF DownInv
<1>6. CASE UpdateConfig \/ CreateProfile \/ UpdateProfile \/ DeleteProfile \/ ActivateProfile \/ TriggerRestart
  <2>1. Serving /\ UNCHANGED <<up, watcher>>
    <3>1. CASE TriggerRestart
      BY <3>1 DEF TriggerRestart, processVars
    <3>2. CASE ~TriggerRestart
      <4>1. PICK op, c : Handle(op, c)
        BY <1>6, <3>2, BeginsFacts
      <4>2. QED
        BY <4>1 DEF Handle, processVars
    <3>3. QED
      BY <3>1, <3>2
  <2>2. QED
    BY <2>1 DEF DownInv, Serving
<1>7. CASE BeginEdit \/ EndEdit
  <2>1. UNCHANGED <<up, live, watcher, queue, reload, panel>> /\ (~up \/ WatcherUp)
        /\ event' = (event \/ WatcherUp)
    BY <1>7 DEF BeginEdit, EndEdit, processVars, Seen, Notify
  <2>2. QED
    BY <2>1 DEF DownInv, WatcherUp
<1>8. CASE UNCHANGED vars
  BY <1>8 DEF vars, DownInv, Readable, LiveIsFile
<1>9. QED
  BY <1>1, <1>2, <1>3, <1>4, <1>5, <1>6, <1>7, <1>8 DEF Next

LEMMA StepAgreement == ReloadInv /\ [Next]_vars => Agreement'
<1> SUFFICES ASSUME TypeOK, PanelInv, DownInv, Agreement, [Next]_vars, WatcherUp', Readable'
             PROVE  \/ event'
                    \/ watcher' \in {"debounce", "drained"}
                    \/ queue' # <<>> /\ queue'[Len(queue')] = file'
                    \/ /\ queue' = <<>> /\ reload' # NotApplying /\ reload'.config = file'
                       /\ \A k \in 1..8 : k < reload'.next => live'[Parts[k]] = file'
                    \/ queue' = <<>> /\ reload' = NotApplying /\ LiveIsFile'
  BY DEF Agreement, ReloadInv
<1>1. CASE Boot
  BY <1>1 DEF Boot, BootLoaded, BootMigrated, BootFresh, DownInv, WatcherUp
<1>2. CASE StartWatching
  <2>1. Readable /\ up /\ watcher = "down" /\ UNCHANGED <<file, live, queue, reload>>
    BY <1>2 DEF StartWatching, Readable
  <2>2. QED
    BY <2>1 DEF DownInv, LiveIsFile
<1>3. CASE Crash
  BY <1>3 DEF Crash, WatcherUp
<1>4. CASE Wake \/ Drain
  BY <1>4 DEF Wake, Drain
<1>5. CASE LoadAndBroadcast
  <2>1. file \in Configs /\ file' = file /\ Broadcast(file) /\ queue \in Seq(Configs)
        /\ Len(queue) <= ChannelCapacity
    BY <1>5 DEF LoadAndBroadcast, Readable, TypeOK
  <2>2. CASE Len(queue) < ChannelCapacity
    BY <2>1, <2>2 DEF Broadcast
  <2>3. CASE ~(Len(queue) < ChannelCapacity)
    <3>1. queue # <<>> /\ queue' = Append(Tail(queue), file)
      BY <2>1, <2>3, Constants DEF Broadcast
    <3>2. Tail(queue) \in Seq(Configs)
      BY <2>1, <3>1
    <3>3. QED
      BY <2>1, <3>1, <3>2
  <2>4. QED
    BY <2>2, <2>3
<1>6. CASE Receive
  <2>1. /\ queue \in Seq(Configs) /\ queue # <<>> /\ queue' = Tail(queue)
        /\ reload' = [config |-> Head(queue), next |-> 1]
        /\ UNCHANGED <<file, event, watcher>>
    BY <1>6 DEF Receive, TypeOK
  <2>2. CASE event \/ watcher \in {"debounce", "drained"}
    BY <2>1, <2>2
  <2>3. CASE queue[Len(queue)] = file
    <3>1. CASE Tail(queue) = <<>>
      <4>1. Len(queue) = 1 /\ Head(queue) = file
        <5>1. Len(Tail(queue)) = Len(queue) - 1 /\ Len(queue) \in Nat
          BY <2>1
        <5>4. Len(Tail(queue)) = 0
          <6>1. Len(<<>>) = 0
            OBVIOUS
          <6>2. QED
            BY <3>1, <6>1, Zenon
        <5>2. Len(queue) = 1
          BY <5>1, <5>4
        <5>3. QED
          BY <2>1, <2>3, <5>2
      <4>2. reload' # NotApplying /\ reload'.config = file /\ reload'.next = 1
        BY <2>1, <4>1 DEF NotApplying
      <4>3. QED
        BY <2>1, <3>1, <4>2
    <3>2. CASE Tail(queue) # <<>>
      <4>1. Tail(queue)[Len(Tail(queue))] = queue[Len(queue)]
        BY <2>1, <3>2
      <4>2. QED
        BY <2>1, <2>3, <3>2, <4>1
    <3>3. QED
      BY <3>1, <3>2
  <2>4. WatcherUp /\ Readable
    BY <2>1 DEF WatcherUp, Readable
  <2>5. QED
    BY <2>1, <2>2, <2>3, <2>4 DEF Agreement
<1>7. CASE ReloadPart
  <2>1. /\ reload \in [config : Configs, next : 1..8] /\ reload # NotApplying
        /\ Swap(reload.next, reload.config)
        /\ reload' = IF reload.next = 8 THEN NotApplying ELSE [reload EXCEPT !.next = @ + 1]
        /\ UNCHANGED <<file, event, watcher, queue>>
    BY <1>7 DEF ReloadPart, TypeOK, NotApplying
  <2>2. /\ live'[Parts[reload.next]] = reload.config
        /\ \A p \in PartNames : live'[p] = live[p] \/ live'[p] = reload.config
    BY <2>1, SwapFacts
  <2>3. CASE event \/ watcher \in {"debounce", "drained"} \/ (queue # <<>> /\ queue[Len(queue)] = file)
    BY <2>1, <2>3
  <2>4. CASE /\ queue = <<>> /\ reload.config = file
             /\ \A k \in 1..8 : k < reload.next => live[Parts[k]] = file
    <3>1. \A k \in 1..8 : k < reload.next + 1 => live'[Parts[k]] = file
      BY <2>1, <2>2, <2>4, PartFacts
    <3>2. CASE reload.next = 8
      <4>1. \A k \in 1..8 : live'[Parts[k]] = file
        BY <3>1, <3>2
      <4>2. LiveIsFile'
        BY <2>1, <4>1, PartFacts DEF LiveIsFile
      <4>3. QED
        BY <2>1, <2>4, <3>2, <4>2
    <3>3. CASE reload.next # 8
      <4>1. /\ reload' = [reload EXCEPT !.next = @ + 1]
            /\ reload'.config = file /\ reload'.next = reload.next + 1
        BY <2>1, <2>4, <3>3
      <4>2. reload' # NotApplying
        BY <2>1, <4>1 DEF NotApplying
      <4>3. QED
        BY <2>1, <2>4, <3>1, <4>1, <4>2
    <3>4. QED
      BY <3>2, <3>3
  <2>5. WatcherUp /\ Readable
    BY <2>1 DEF WatcherUp, Readable
  <2>6. QED
    BY <2>1, <2>3, <2>4, <2>5 DEF Agreement
<1>8. CASE ApplyPart
  <2>1. /\ \A p \in PartNames : live'[p] = live[p] \/ live'[p] = file
        /\ UNCHANGED <<file, up, event, watcher, queue, reload>>
    BY <1>8, ApplyKeeps
  <2>2. LiveIsFile => LiveIsFile'
    BY <2>1 DEF LiveIsFile
  <2>3. (\A k \in 1..8 : k < reload.next => live[Parts[k]] = file)
          => (\A k \in 1..8 : k < reload.next => live'[Parts[k]] = file)
    BY <2>1, PartFacts
  <2>4. WatcherUp /\ Readable
    BY <2>1 DEF WatcherUp, Readable
  <2>5. QED
    BY <2>1, <2>2, <2>3, <2>4 DEF Agreement
<1>9. CASE Rename \/ BeginEdit \/ EndEdit
  BY <1>9 DEF Rename, BeginEdit, EndEdit, Notify, WatcherUp, processVars
<1>10. CASE \/ UpdateConfig \/ CreateProfile \/ UpdateProfile \/ DeleteProfile \/ ActivateProfile
            \/ TriggerRestart \/ CreateTmp \/ WriteTmp \/ SaveFails \/ HangUp \/ UNCHANGED vars
  <2>1. UNCHANGED <<file, live, event, watcher, queue, reload>>
    <3>1. CASE UpdateConfig \/ CreateProfile \/ UpdateProfile \/ DeleteProfile \/ ActivateProfile
      <4>1. PICK op, c : Handle(op, c)
        BY <3>1, BeginsFacts
      <4>2. QED
        BY <4>1 DEF Handle, processVars
    <3>2. CASE TriggerRestart \/ CreateTmp \/ WriteTmp \/ SaveFails \/ HangUp \/ UNCHANGED vars
      BY <3>2 DEF TriggerRestart, CreateTmp, WriteTmp, SaveFails, HangUp, vars, processVars
    <3>3. QED
      BY <1>10, <3>1, <3>2
  <2>2. QED
    BY <2>1 DEF Agreement, WatcherUp, Readable, LiveIsFile
<1>11. QED
  BY <1>1, <1>2, <1>3, <1>4, <1>5, <1>6, <1>7, <1>8, <1>9, <1>10 DEF Next

LEMMA StepReload == ReloadInv /\ [Next]_vars => ReloadInv'
<1> SUFFICES ASSUME ReloadInv, [Next]_vars PROVE ReloadInv'
  OBVIOUS
<1>1. TypeOK'
  <2>1. CASE UNCHANGED vars
    BY <2>1 DEF vars, ReloadInv, TypeOK
  <2>2. QED
    BY <2>1, BootTyped, TasksTyped, HandlerTyped DEF ReloadInv, Next
<1>2. PanelInv' /\ DownInv' /\ Agreement'
  BY StepPanel, StepDown, StepAgreement DEF ReloadInv
<1>3. QED
  BY <1>1, <1>2 DEF ReloadInv

\* api.rs, config_loader.rs, config_watcher.rs, main.rs: every variable stays in
\* its domain; what a handler makes of a configuration is one that validate
\* accepts.
THEOREM TypeCorrect == Spec => []TypeOK
<1>1. ReloadInv => TypeOK
  BY DEF ReloadInv
<1>2. QED
  BY <1>1, InitReload, StepReload, PTL DEF Spec

\* api.rs apply_config and main.rs 97-230: when nothing is under way any more,
\* every part of the runtime was made from the configuration in the file.
THEOREM RuntimeFollowsFile == Spec => []QuiescentAgreement
<1>1. ReloadInv => QuiescentAgreement
  BY DEF ReloadInv, Agreement, QuiescentAgreement, Quiescent, WatcherUp
<1>2. QED
  BY <1>1, InitReload, StepReload, PTL DEF Spec

\* config_loader.rs save and api.rs save_and_apply: what was acknowledged is on
\* the disk until somebody changes it.
THEOREM AcknowledgedIsSaved == Spec => []AckedOnDisk
<1>1. ReloadInv => AckedOnDisk
  BY DEF ReloadInv, PanelInv, AckedOnDisk
<1>2. QED
  BY <1>1, InitReload, StepReload, PTL DEF Spec

\* config_loader.rs save: no step of the proxy, and no crash between two of them,
\* leaves half a configuration in config.toml.
THEOREM SavesAreAtomic == Spec => SaveAtomic
<1>1. ReloadInv /\ [Next]_vars
        => [file' = Unreadable => editing \/ file = Unreadable \/ editing']_vars
  BY StepAtomic DEF ReloadInv
<1>2. QED
  BY <1>1, InitReload, StepReload, PTL DEF Spec, SaveAtomic

(* --------------------- nothing is under way for ever --------------------- *)

\* What each of those at work still has to do, counted so that whoever hands
\* something on hands on less than he had.
SavingLeft ==
    CASE panel.pc = "create" -> 24
      [] panel.pc = "write" -> 23
      [] panel.pc = "rename" -> 22
      [] panel.pc = "apply" -> 9 - panel.next
      [] OTHER -> 0

WatcherLeft ==
    CASE watcher = "down" -> 1
      [] watcher = "debounce" -> 12
      [] watcher = "drained" -> 11
      [] OTHER -> 0

ReloadLeft == IF reload.next \in 1..8 THEN 9 - reload.next ELSE 0
EventLeft == IF event THEN 13 ELSE 0
EditLeft == IF editing THEN 14 ELSE 0
StartLeft == IF up THEN 0 ELSE 1

Work == StartLeft + WatcherLeft + EventLeft + 10 * Len(queue) + ReloadLeft + SavingLeft + EditLeft

\* Every step that is no new request, edit or crash leaves less to do.
WorkShrinks == [][changes' = changes /\ crashes' = crashes => Work' < Work]_vars

\* What has to be done is never more than this.
WorkBounded == Work \in 0 .. 72 + 10 * ChannelCapacity

\* Somebody who is scheduled has the next step: the guards of the actions under
\* Fairness.
SomebodyNext ==
    \/ ~up                                             \* Boot
    \/ up /\ watcher = "down"                          \* StartWatching
    \/ watcher = "idle" /\ event                       \* Wake
    \/ watcher \in {"debounce", "drained"}             \* Drain, LoadAndBroadcast
    \/ reload.next = 0 /\ queue # <<>>                 \* Receive
    \/ reload.next \in 1..8                            \* ReloadPart
    \/ panel.pc \in {"create", "write", "rename", "apply"}
    \/ editing /\ Seen                                 \* EndEdit

\* Nobody waits for what nobody will do.
NobodyWaits == ~Quiescent => SomebodyNext

\* Whoever edits the file is seen once the watcher is up: where there is a file
\* there is a directory to watch.
EditInv ==
    /\ event => WatcherUp
    /\ file # Absent => dir
    /\ panel.pc \in {"write", "rename"} => dir
    /\ editing => dir /\ watcher # "failed"

LeftFits ==
    /\ StartLeft \in 0..1 /\ WatcherLeft \in 0..12 /\ EventLeft \in {0, 13}
    /\ Len(queue) \in 0..ChannelCapacity /\ ReloadLeft \in 0..8
    /\ SavingLeft \in 0..24 /\ EditLeft \in {0, 14}

LEMMA LeftTyped == TypeOK => LeftFits
<1> SUFFICES ASSUME TypeOK PROVE LeftFits
  OBVIOUS
<1>1. StartLeft \in 0..1 /\ EventLeft \in {0, 13} /\ EditLeft \in {0, 14}
  BY DEF StartLeft, EventLeft, EditLeft
<1>2. WatcherLeft \in 0..12
  BY DEF WatcherLeft
<1>3. ReloadLeft \in 0..8
  BY DEF ReloadLeft
<1>4. SavingLeft \in 0..24
  <2>1. panel.pc = "apply" => panel.next \in 1..8
    BY DEF TypeOK
  <2>2. QED
    BY <2>1 DEF SavingLeft
<1>5. Len(queue) \in 0..ChannelCapacity
  BY LenProperties DEF TypeOK
<1>6. QED
  BY <1>1, <1>2, <1>3, <1>4, <1>5 DEF LeftFits

LEMMA LeftTypedNext == TypeOK' => LeftFits'
BY LeftTyped, PTL

\* The parts of the sum before and after a step are numbers.
LEMMA LeftNumbers ==
    ASSUME TypeOK, TypeOK'
    PROVE  /\ StartLeft \in Nat /\ WatcherLeft \in Nat /\ EventLeft \in Nat /\ Len(queue) \in Nat
           /\ ReloadLeft \in Nat /\ SavingLeft \in Nat /\ EditLeft \in Nat
           /\ StartLeft' \in Nat /\ WatcherLeft' \in Nat /\ EventLeft' \in {0, 13}
           /\ Len(queue)' \in Nat /\ ReloadLeft' \in Nat /\ SavingLeft' \in Nat /\ EditLeft' \in Nat
<1>1. LeftFits /\ LeftFits'
  BY LeftTyped, LeftTypedNext
<1>2. QED
  BY <1>1, Constants DEF LeftFits

LEMMA WatcherWork ==
    ASSUME TypeOK, TypeOK', DownInv, Boot \/ StartWatching \/ Wake \/ Drain \/ LoadAndBroadcast
    PROVE  Work' < Work
<1>1. CASE Boot
  <2>1. StartLeft = 1 /\ StartLeft' = 0
    BY <1>1 DEF Boot, BootLoaded, BootMigrated, BootFresh, StartFrom, StartLeft
  <2>2. UNCHANGED <<watcher, event, queue, reload, panel, editing>>
    BY <1>1 DEF Boot
  <2>3. /\ WatcherLeft' = WatcherLeft /\ EventLeft' = EventLeft /\ queue' = queue
        /\ ReloadLeft' = ReloadLeft /\ SavingLeft' = SavingLeft /\ EditLeft' = EditLeft
    BY <2>2 DEF WatcherLeft, EventLeft, ReloadLeft, SavingLeft, EditLeft
  <2>4. QED
    BY <2>1, <2>3, LeftNumbers DEF Work
<1>2. CASE StartWatching
  <2>1. WatcherLeft = 1 /\ WatcherLeft' = 0
    BY <1>2 DEF StartWatching, WatcherLeft
  <2>2. UNCHANGED <<up, event, queue, reload, panel, editing>>
    BY <1>2 DEF StartWatching
  <2>3. /\ StartLeft' = StartLeft /\ EventLeft' = EventLeft /\ queue' = queue
        /\ ReloadLeft' = ReloadLeft /\ SavingLeft' = SavingLeft /\ EditLeft' = EditLeft
    BY <2>2 DEF StartLeft, EventLeft, ReloadLeft, SavingLeft, EditLeft
  <2>4. QED
    BY <2>1, <2>3, LeftNumbers DEF Work
<1>3. CASE Wake
  <2>1. WatcherLeft = 0 /\ WatcherLeft' = 12 /\ EventLeft = 13 /\ EventLeft' = 0
    BY <1>3 DEF Wake, WatcherLeft, EventLeft
  <2>2. UNCHANGED <<up, queue, reload, panel, editing>>
    BY <1>3 DEF Wake
  <2>3. /\ StartLeft' = StartLeft /\ queue' = queue
        /\ ReloadLeft' = ReloadLeft /\ SavingLeft' = SavingLeft /\ EditLeft' = EditLeft
    BY <2>2 DEF StartLeft, ReloadLeft, SavingLeft, EditLeft
  <2>4. QED
    BY <2>1, <2>3, LeftNumbers DEF Work
<1>4. CASE Drain
  <2>1. WatcherLeft = 12 /\ WatcherLeft' = 11 /\ EventLeft' = 0
    BY <1>4 DEF Drain, WatcherLeft, EventLeft
  <2>2. UNCHANGED <<up, queue, reload, panel, editing>>
    BY <1>4 DEF Drain
  <2>3. /\ StartLeft' = StartLeft /\ queue' = queue
        /\ ReloadLeft' = ReloadLeft /\ SavingLeft' = SavingLeft /\ EditLeft' = EditLeft
    BY <2>2 DEF StartLeft, ReloadLeft, SavingLeft, EditLeft
  <2>4. QED
    BY <2>1, <2>3, LeftNumbers DEF Work
<1>5. CASE LoadAndBroadcast
  <2>1. WatcherLeft = 11 /\ WatcherLeft' = 0
    BY <1>5 DEF LoadAndBroadcast, WatcherLeft
  <2>2. UNCHANGED <<up, event, reload, panel, editing>>
    BY <1>5 DEF LoadAndBroadcast
  <2>3. /\ StartLeft' = StartLeft /\ EventLeft' = EventLeft
        /\ ReloadLeft' = ReloadLeft /\ SavingLeft' = SavingLeft /\ EditLeft' = EditLeft
    BY <2>2 DEF StartLeft, EventLeft, ReloadLeft, SavingLeft, EditLeft
  <2>4. Len(queue') <= Len(queue) + 1
    <3>1. CASE Readable
      <4>1. queue \in Seq(Configs) /\ file \in Configs /\ Broadcast(file)
        BY <1>5, <3>1 DEF LoadAndBroadcast, Readable, TypeOK
      <4>2. CASE Len(queue) < ChannelCapacity
        BY <4>1, <4>2, AppendProperties DEF Broadcast
      <4>3. CASE ~(Len(queue) < ChannelCapacity)
        <5>1. queue' = Append(Tail(queue), file) /\ queue # <<>>
          BY <4>1, <4>3, Constants, LenProperties DEF Broadcast
        <5>2. Tail(queue) \in Seq(Configs) /\ Len(Tail(queue)) = Len(queue) - 1
          BY <4>1, <5>1, HeadTailProperties
        <5>3. QED
          BY <4>1, <5>1, <5>2, AppendProperties, LenProperties
      <4>4. QED
        BY <4>2, <4>3
    <3>2. CASE ~Readable
      BY <1>5, <3>2 DEF LoadAndBroadcast
    <3>3. QED
      BY <3>1, <3>2
  <2>5. QED
    BY <2>1, <2>3, <2>4, LeftNumbers DEF Work
<1>6. QED
  BY <1>1, <1>2, <1>3, <1>4, <1>5

LEMMA ReloadWork ==
    ASSUME TypeOK, TypeOK', Receive \/ ReloadPart
    PROVE  Work' < Work
<1>1. UNCHANGED <<up, event, watcher, panel, editing>>
  BY DEF Receive, ReloadPart
<1>2. /\ StartLeft' = StartLeft /\ EventLeft' = EventLeft /\ WatcherLeft' = WatcherLeft
      /\ SavingLeft' = SavingLeft /\ EditLeft' = EditLeft
  BY <1>1 DEF StartLeft, EventLeft, WatcherLeft, SavingLeft, EditLeft
<1>3. CASE Receive
  <2>1. ReloadLeft = 0 /\ ReloadLeft' = 8
    BY <1>3 DEF Receive, ReloadLeft
  <2>2. queue \in Seq(Configs) /\ queue # <<>> /\ queue' = Tail(queue)
    BY <1>3 DEF Receive, TypeOK
  <2>3. Len(queue') = Len(queue) - 1
    BY <2>2, HeadTailProperties
  <2>4. QED
    BY <1>2, <2>1, <2>3, LeftNumbers DEF Work
<1>4. CASE ReloadPart
  <2>1. queue' = queue
    BY <1>4 DEF ReloadPart
  <2>2. ReloadLeft' = ReloadLeft - 1
    <3>1. reload.next \in 1..8 /\ ReloadLeft = 9 - reload.next
      BY <1>4 DEF ReloadPart, ReloadLeft
    <3>2. CASE reload.next = 8
      BY <1>4, <3>1, <3>2 DEF ReloadPart, ReloadLeft, NotApplying
    <3>3. CASE reload.next # 8
      <4>1. reload \in [config : Configs, next : 1..8]
        BY <3>1 DEF TypeOK, NotApplying
      <4>2. reload'.next = reload.next + 1
        BY <1>4, <3>3, <4>1 DEF ReloadPart
      <4>3. QED
        BY <3>1, <3>3, <4>2 DEF ReloadLeft
    <3>4. QED
      BY <3>2, <3>3
  <2>3. QED
    BY <1>2, <2>1, <2>2, LeftNumbers DEF Work
<1>5. QED
  BY <1>3, <1>4

LEMMA PanelWork ==
    ASSUME TypeOK, TypeOK', CreateTmp \/ WriteTmp \/ Rename \/ SaveFails \/ ApplyPart \/ HangUp
    PROVE  Work' < Work
<1>1. UNCHANGED <<up, watcher, queue, reload, editing>>
  BY DEF CreateTmp, WriteTmp, Rename, SaveFails, ApplyPart, HangUp, processVars
<1>2. /\ StartLeft' = StartLeft /\ WatcherLeft' = WatcherLeft /\ queue' = queue
      /\ ReloadLeft' = ReloadLeft /\ EditLeft' = EditLeft
  BY <1>1 DEF StartLeft, WatcherLeft, ReloadLeft, EditLeft
<1>3. panel \in [op : Ops, pc : {"idle", "create", "write", "rename", "apply"},
                 config : Configs \cup {NoConfig}, next : 0..8]
  BY DEF TypeOK
<1>4. CASE Rename
  <2>1. SavingLeft = 22
    BY <1>4 DEF Rename, SavingLeft
  <2>2. panel'.pc = "apply" /\ panel'.next = 1
    BY <1>3, <1>4 DEF Rename
  <2>3. SavingLeft' = 8
    BY <2>2 DEF SavingLeft
  <2>4. QED
    BY <1>2, <2>1, <2>3, LeftNumbers, SMTT(20) DEF Work
<1>5. CASE ~Rename
  <2>1. EventLeft' = EventLeft
    BY <1>5 DEF CreateTmp, WriteTmp, SaveFails, ApplyPart, HangUp, EventLeft
  <2>2. SavingLeft' < SavingLeft
    <3>1. CASE CreateTmp
      BY <1>3, <3>1 DEF CreateTmp, SavingLeft
    <3>2. CASE WriteTmp
      BY <1>3, <3>2 DEF WriteTmp, SavingLeft
    <3>3. CASE SaveFails \/ HangUp
      <4>1. SavingLeft' = 0
        BY <3>3 DEF SaveFails, HangUp, SavingLeft, NoRequest
      <4>2. SavingLeft >= 1
        <5>1. panel.pc = "apply" => panel.next \in 1..8
          BY DEF TypeOK
        <5>2. QED
          BY <3>3, <5>1 DEF SaveFails, HangUp, SavingLeft
      <4>3. QED
        BY <4>1, <4>2, LeftNumbers
    <3>4. CASE ApplyPart
      <4>1. panel.pc = "apply" /\ panel.next \in 1..8 /\ SavingLeft = 9 - panel.next
        BY <3>4 DEF ApplyPart, TypeOK, SavingLeft
      <4>2. CASE panel.next = 8
        <5>1. SavingLeft' = 0
          BY <3>4, <4>2 DEF ApplyPart, NoRequest, SavingLeft
        <5>2. QED
          BY <4>1, <4>2, <5>1
      <4>3. CASE panel.next # 8
        <5>1. panel'.pc = "apply" /\ panel'.next = panel.next + 1
          BY <1>3, <3>4, <4>1, <4>3 DEF ApplyPart
        <5>2. QED
          BY <4>1, <5>1 DEF SavingLeft
      <4>4. QED
        BY <4>2, <4>3
    <3>5. QED
      BY <1>5, <3>1, <3>2, <3>3, <3>4
  <2>3. QED
    BY <1>2, <2>1, <2>2, LeftNumbers DEF Work
<1>6. QED
  BY <1>4, <1>5

LEMMA StepWork ==
    ASSUME ReloadInv, Next, TypeOK', changes' = changes /\ crashes' = crashes
    PROVE  Work' < Work
<1>1. CASE Boot \/ StartWatching \/ Wake \/ Drain \/ LoadAndBroadcast
  BY <1>1, WatcherWork DEF ReloadInv
<1>2. CASE Receive \/ ReloadPart
  BY <1>2, ReloadWork DEF ReloadInv
<1>3. CASE CreateTmp \/ WriteTmp \/ Rename \/ SaveFails \/ ApplyPart \/ HangUp
  BY <1>3, PanelWork DEF ReloadInv
<1>4. CASE EndEdit
  <2>1. UNCHANGED <<up, watcher, queue, reload, panel>>
    BY <1>4 DEF EndEdit, processVars
  <2>2. /\ StartLeft' = StartLeft /\ WatcherLeft' = WatcherLeft /\ queue' = queue
        /\ ReloadLeft' = ReloadLeft /\ SavingLeft' = SavingLeft
    BY <2>1 DEF StartLeft, WatcherLeft, ReloadLeft, SavingLeft
  <2>3. EditLeft = 14 /\ EditLeft' = 0
    BY <1>4 DEF EndEdit, EditLeft
  <2>4. QED
    BY <2>2, <2>3, LeftNumbers, SMTT(20) DEF Work, ReloadInv
<1>5. changes \in Nat /\ crashes \in Nat
  BY Constants DEF ReloadInv, TypeOK
<1>6. ~Crash
  BY <1>5 DEF Crash
<1>7. ~(UpdateConfig \/ CreateProfile \/ UpdateProfile \/ DeleteProfile \/ ActivateProfile)
  BY <1>5, BeginsFacts DEF Handle, ReloadInv
<1>8. ~TriggerRestart /\ ~BeginEdit
  BY <1>5 DEF TriggerRestart, BeginEdit
<1>9. QED
  BY <1>1, <1>2, <1>3, <1>4, <1>6, <1>7, <1>8 DEF Next

LEMMA InitEdit == Init => EditInv
BY DEF Init, EditInv, NoRequest

LEMMA StepEdit == ReloadInv /\ EditInv /\ [Next]_vars => EditInv'
<1> SUFFICES ASSUME ReloadInv, EditInv, [Next]_vars PROVE EditInv'
  OBVIOUS
<1>1. CASE Boot
  <2>1. UNCHANGED <<event, watcher, panel, editing>> /\ (dir' = dir \/ dir' = TRUE)
        /\ (file' = file \/ dir' = TRUE)
    BY <1>1 DEF Boot, BootLoaded, BootMigrated, BootFresh
  <2>2. QED
    BY <2>1 DEF EditInv, WatcherUp
<1>2. CASE StartWatching
  <2>1. ~event
    BY <1>2 DEF StartWatching, ReloadInv, DownInv
  <2>2. QED
    BY <1>2, <2>1 DEF StartWatching, EditInv, WatcherUp
<1>3. CASE Crash
  BY <1>3 DEF Crash, EditInv, NoRequest
<1>4. CASE Wake \/ Drain \/ LoadAndBroadcast
  <2>1. UNCHANGED <<file, dir, panel, editing>> /\ watcher' \in {"idle", "debounce", "drained"}
    BY <1>4 DEF Wake, Drain, LoadAndBroadcast
  <2>2. QED
    BY <2>1 DEF EditInv, WatcherUp
<1>5. CASE Receive \/ ReloadPart
  <2>1. UNCHANGED <<file, dir, event, watcher, panel, editing>>
    BY <1>5 DEF Receive, ReloadPart
  <2>2. QED
    BY <2>1 DEF EditInv, WatcherUp
<1>6. CASE UpdateConfig \/ CreateProfile \/ UpdateProfile \/ DeleteProfile \/ ActivateProfile
  <2>1. PICK op, c : Handle(op, c)
    BY <1>6, BeginsFacts DEF ReloadInv
  <2>2. UNCHANGED <<file, dir, event, watcher, editing>> /\ panel'.pc = "create"
    BY <2>1 DEF Handle, processVars
  <2>3. QED
    BY <2>2 DEF EditInv, WatcherUp
<1>7. CASE TriggerRestart \/ SaveFails \/ ApplyPart \/ HangUp
  <2>1. UNCHANGED <<file, dir, event, watcher, editing>>
    BY <1>7 DEF TriggerRestart, SaveFails, ApplyPart, HangUp, processVars
  <2>2. panel'.pc \notin {"write", "rename"}
    <3>1. panel \in [op : Ops, pc : {"idle", "create", "write", "rename", "apply"},
                     config : Configs \cup {NoConfig}, next : 0..8]
      BY DEF ReloadInv, TypeOK
    <3>2. QED
      BY <1>7, <3>1 DEF TriggerRestart, SaveFails, ApplyPart, HangUp, NoRequest
  <2>3. QED
    BY <2>1, <2>2 DEF EditInv, WatcherUp
<1>8. CASE CreateTmp \/ WriteTmp
  <2>1. UNCHANGED <<file, event, watcher, editing>> /\ dir'
    BY <1>8 DEF CreateTmp, WriteTmp, processVars, EditInv
  <2>2. QED
    BY <2>1 DEF EditInv, WatcherUp
<1>9. CASE Rename
  <2>1. UNCHANGED <<dir, watcher, editing>> /\ dir /\ event' = (event \/ WatcherUp)
    BY <1>9 DEF Rename, processVars, EditInv, Notify
  <2>2. QED
    BY <2>1 DEF EditInv, WatcherUp
<1>10. CASE BeginEdit
  <2>1. dir /\ UNCHANGED <<dir, watcher, panel>> /\ event' = (event \/ WatcherUp)
    BY <1>10, Constants DEF BeginEdit, processVars, Notify, EditInv, Readable
  <2>2. watcher # "failed"
    BY <1>10 DEF BeginEdit, Seen, WatcherUp, ReloadInv, DownInv
  <2>3. QED
    BY <2>1, <2>2 DEF EditInv, WatcherUp
<1>11. CASE EndEdit
  <2>1. dir /\ UNCHANGED <<dir, watcher, panel>> /\ event' = (event \/ WatcherUp) /\ editing' = FALSE
    BY <1>11 DEF EndEdit, processVars, Notify, EditInv
  <2>2. QED
    BY <2>1 DEF EditInv, WatcherUp
<1>12. CASE UNCHANGED vars
  BY <1>12 DEF vars, EditInv, WatcherUp
<1>13. QED
  BY <1>1, <1>2, <1>3, <1>4, <1>5, <1>6, <1>7, <1>8, <1>9, <1>10, <1>11, <1>12 DEF Next

LEMMA GoesOn == ReloadInv /\ EditInv => NobodyWaits
<1> SUFFICES ASSUME ReloadInv, EditInv, ~SomebodyNext PROVE Quiescent
  BY DEF NobodyWaits
<1>1. up /\ watcher # "down"
  BY DEF SomebodyNext
<1>2. watcher \in {"idle", "failed"} /\ ~event
  BY <1>1 DEF SomebodyNext, ReloadInv, TypeOK, EditInv, WatcherUp
<1>3. reload = NotApplying /\ queue = <<>>
  BY DEF SomebodyNext, ReloadInv, TypeOK, NotApplying
<1>4. panel = NoRequest
  BY DEF SomebodyNext, ReloadInv, TypeOK
<1>5. ~editing
  BY <1>1, <1>2 DEF SomebodyNext, EditInv, Seen, WatcherUp
<1>6. QED
  BY <1>1, <1>2, <1>3, <1>4, <1>5 DEF Quiescent

LEMMA WorkFits == TypeOK => WorkBounded
<1> SUFFICES ASSUME TypeOK PROVE WorkBounded
  OBVIOUS
<1> DEFINE l == Len(queue)
           s == StartLeft + WatcherLeft + EventLeft + ReloadLeft + SavingLeft + EditLeft
<1>0. LeftFits
  BY LeftTyped
<1>1. l \in Nat /\ l <= ChannelCapacity /\ ChannelCapacity \in Nat
  BY <1>0, Constants DEF LeftFits
<1>t. /\ StartLeft \in Nat /\ StartLeft <= 1
      /\ WatcherLeft \in Nat /\ WatcherLeft <= 12
      /\ EventLeft \in Nat /\ EventLeft <= 13
      /\ ReloadLeft \in Nat /\ ReloadLeft <= 8
      /\ SavingLeft \in Nat /\ SavingLeft <= 24
      /\ EditLeft \in Nat /\ EditLeft <= 14
  BY <1>0 DEF LeftFits
<1>2. s \in Nat /\ s <= 72
  BY <1>t
<1>3. Work = s + 10 * l
  BY <1>t, <1>1 DEF Work
<1> HIDE DEF l, s
<1>4. QED
  BY <1>1, <1>2, <1>3 DEF WorkBounded

\* main.rs 97-230, config_watcher.rs, api.rs save_and_apply: what a request, an
\* edit or a start sets going comes to an end after a bounded number of steps,
\* for no reload and no notification sets off more than it used up.
THEOREM NoReloadTriggersAnother == Spec => []WorkBounded /\ WorkShrinks
<1>1. ReloadInv /\ [Next]_vars => [changes' = changes /\ crashes' = crashes => Work' < Work]_vars
  BY StepReload, StepWork DEF ReloadInv
<1>2. ReloadInv => WorkBounded
  BY WorkFits DEF ReloadInv
<1>3. QED
  BY <1>1, <1>2, InitReload, StepReload, PTL DEF Spec, WorkShrinks

\* The same code: until everything has come to rest, somebody who is scheduled
\* has something to do; nobody waits for a notification, a configuration or an
\* answer that nobody will send.
THEOREM NobodyIsStuck == Spec => []NobodyWaits
<1>1. QED
  BY GoesOn, InitReload, StepReload, InitEdit, StepEdit, PTL DEF Spec

(* -------------------------------- MaskedKeys ----------------------------- *)

\* What a list of keys may hold once masks have been stored, too.
Entries == Keys \cup Masks

\* A configuration: a list of keys, or masks, for each profile it has.
KeyMap == UNION {[S -> Seq(Entries)] : S \in SUBSET Profiles}

PutRecord == [from : Tabs \cup {NoTab}, id : Nat, body : KeyMap, meant : KeyMap,
              good : BOOLEAN, phase : {"sent", "read"}, current : KeyMap]

KeysTypeOK ==
    /\ stored \in KeyMap
    /\ view \in [Tabs -> KeyMap] /\ meant \in [Tabs -> KeyMap]
    /\ fresh \in [Tabs -> BOOLEAN] /\ moved \in [Tabs -> BOOLEAN]
    /\ puts \subseteq PutRecord
    /\ saves \in Nat /\ \A x \in puts : x.id <= saves

Has(c, p, i) == p \in DOMAIN c /\ i \in DOMAIN c[p]

\* The masks of a copy stand for keys that c has at their places, and m, too.
Right(c, copy, m) ==
    \A p \in DOMAIN copy : \A i \in DOMAIN copy[p] :
        copy[p][i] \in Masks => Has(c, p, i) /\ Masked(c[p][i]) = copy[p][i] /\ c[p][i] = m[p][i]

\* The masks of a copy are in another one, at the same places.
Covered(copy, other) ==
    \A p \in DOMAIN copy : \A i \in DOMAIN copy[p] :
        copy[p][i] \in Masks => Has(other, p, i) /\ other[p][i] = copy[p][i]

\* What a user sees in a copy, where it has no masks, is what is there.
Plain(copy, m) ==
    /\ DOMAIN copy = DOMAIN m
    /\ \A p \in DOMAIN copy :
          /\ DOMAIN copy[p] = DOMAIN m[p]
          /\ \A i \in DOMAIN copy[p] : copy[p][i] \notin Masks => copy[p][i] = m[p][i]

\* Once x is stored, the masks of the copy stand for what they mean.
Ready(x, copy, m) == Covered(copy, x.body) /\ (x.phase = "read" => Right(x.current, copy, m))

CopiesInv ==
    /\ \A t \in Tabs : Plain(view[t], meant[t])
    /\ \A x \in puts : Plain(x.body, x.meant)

\* The copy of a tab that nobody interfered with, whichever of its PUTs comes next.
TabsInv ==
    \A t \in Tabs : fresh[t] /\ ~moved[t] =>
        /\ Right(stored, view[t], meant[t])
        /\ \A x \in puts : x.from = t => Ready(x, view[t], meant[t])

\* A good PUT that has not read yet, whichever of those sent before it comes first.
SentInv ==
    \A y \in puts : y.good /\ y.phase = "sent" =>
        /\ Right(stored, y.body, y.meant)
        /\ \A x \in puts : Follows(y, x) => Ready(x, y.body, y.meant)

\* One that has read: what it read is what it needs.
ReadInv == \A y \in puts : y.good /\ y.phase = "read" => Right(y.current, y.body, y.meant)

KeysInv == KeysTypeOK /\ CopiesInv /\ TabsInv /\ SentInv /\ ReadInv

\* What a configuration is made of.
LEMMA KeyMapFacts ==
  ASSUME NEW c
  PROVE  c \in KeyMap <=> /\ c = [p \in DOMAIN c |-> c[p]]
                          /\ DOMAIN c \subseteq Profiles
                          /\ \A p \in DOMAIN c : c[p] \in Seq(Entries)
<1>1. ASSUME c \in KeyMap
      PROVE  /\ c = [p \in DOMAIN c |-> c[p]] /\ DOMAIN c \subseteq Profiles
             /\ \A p \in DOMAIN c : c[p] \in Seq(Entries)
  <2>1. PICK S \in SUBSET Profiles : c \in [S -> Seq(Entries)]
    BY <1>1 DEF KeyMap
  <2> QED BY <2>1
<1>2. ASSUME c = [p \in DOMAIN c |-> c[p]], DOMAIN c \subseteq Profiles,
             \A p \in DOMAIN c : c[p] \in Seq(Entries)
      PROVE  c \in KeyMap
  <2>1. c \in [DOMAIN c -> Seq(Entries)]
    BY <1>2
  <2> QED BY <2>1, <1>2 DEF KeyMap
<1> QED BY <1>1, <1>2

\* A mask is no key, and the mask of a mask is that mask.
LEMMA MaskedFacts ==
  ASSUME NEW s \in Entries
  PROVE  Masked(s) \in Masks /\ Masked(s) \notin Keys /\ Masked(Masked(s)) = Masked(s)
BY MaskedKeysAssumption DEF Masked, Entries, Masks

\* Merging and masking keep the length of a list.
LEMMA MergeTypes ==
  ASSUME NEW list \in Seq(Entries), NEW old \in Seq(Entries)
  PROVE  /\ Merge(list, old) \in Seq(Entries)
         /\ DOMAIN Merge(list, old) = DOMAIN list
         /\ MaskList(old) \in Seq(Entries) /\ DOMAIN MaskList(old) = DOMAIN old
<1>1. \A i \in DOMAIN list : (IF i \in DOMAIN old /\ list[i] = Masked(old[i]) THEN old[i] ELSE list[i]) \in Entries
  OBVIOUS
<1>2. Merge(list, old) \in [1..Len(list) -> Entries]
  BY <1>1 DEF Merge
<1>3. Merge(list, old) \in Seq(Entries)
  BY <1>2
<1>4. \A i \in DOMAIN old : Masked(old[i]) \in Entries
  BY MaskedFacts DEF Entries
<1>5. MaskList(old) \in [1..Len(old) -> Entries]
  BY <1>4 DEF MaskList
<1> QED BY <1>2, <1>3, <1>5 DEF Merge, MaskList

\* A configuration with keys put back is one.
LEMMA PreservedTypes ==
  ASSUME NEW body \in KeyMap, NEW old \in KeyMap
  PROVE  Preserved(body, old) \in KeyMap
<1>1. \A p \in DOMAIN body : (IF p \in DOMAIN old THEN Merge(body[p], old[p]) ELSE body[p]) \in Seq(Entries)
  BY KeyMapFacts, MergeTypes
<1> QED BY <1>1, KeyMapFacts DEF Preserved

\* A copy whose masks are right is stored as what its user sees: a key that is in
\* the copy as it is never looks like the mask of the stored one.
LEMMA PreservedRight ==
  ASSUME NEW copy \in KeyMap, NEW c \in KeyMap, NEW m \in KeyMap, Right(c, copy, m), Plain(copy, m)
  PROVE  Preserved(copy, c) = m
<1> DEFINE new == Preserved(copy, c)
<1>1. ASSUME NEW p \in DOMAIN copy PROVE new[p] = m[p]
  <2>1. copy[p] \in Seq(Entries) /\ m[p] \in Seq(Entries) /\ DOMAIN copy[p] = DOMAIN m[p]
    BY KeyMapFacts DEF Plain
  <2>2. p \in DOMAIN c => c[p] \in Seq(Entries)
    BY KeyMapFacts
  <2>3. new[p] \in Seq(Entries) /\ DOMAIN new[p] = DOMAIN copy[p]
    BY <2>1, <2>2, MergeTypes DEF Preserved
  <2>4. ASSUME NEW i \in DOMAIN copy[p] PROVE new[p][i] = m[p][i]
    <3>1. new[p][i] = IF Has(c, p, i) /\ copy[p][i] = Masked(c[p][i]) THEN c[p][i] ELSE copy[p][i]
      BY DEF Preserved, Merge, Has
    <3>2. CASE copy[p][i] \in Masks
      BY <3>1, <3>2 DEF Right
    <3>3. CASE copy[p][i] \notin Masks
      <4>1. Has(c, p, i) => c[p][i] \in Entries
        BY <2>2 DEF Has
      <4>2. ~(Has(c, p, i) /\ copy[p][i] = Masked(c[p][i]))
        BY <3>3, <4>1, MaskedFacts
      <4> QED BY <3>1, <3>3, <4>2 DEF Plain
    <3> QED BY <3>2, <3>3
  <2> HIDE DEF new
  <2> QED BY <2>1, <2>3, <2>4
<1>2. new = [p \in DOMAIN copy |-> new[p]]
  BY DEF Preserved
<1>3. m = [p \in DOMAIN copy |-> m[p]]
  BY KeyMapFacts DEF Plain
<1> QED BY <1>1, <1>2, <1>3

\* A copy that is right for what a PUT read is right for what that stores, if the
\* PUT carries the copy's masks.
LEMMA StoredRight ==
  ASSUME NEW copy, NEW c, NEW m, NEW body, Right(c, copy, m), Covered(copy, body)
  PROVE  Right(Preserved(body, c), copy, m)
<1> DEFINE new == Preserved(body, c)
<1>1. SUFFICES ASSUME NEW p \in DOMAIN copy, NEW i \in DOMAIN copy[p], copy[p][i] \in Masks
               PROVE  Has(new, p, i) /\ Masked(new[p][i]) = copy[p][i] /\ new[p][i] = m[p][i]
  BY DEF Right
<1>2. Has(c, p, i) /\ Masked(c[p][i]) = copy[p][i] /\ c[p][i] = m[p][i]
  BY <1>1 DEF Right
<1>3. Has(body, p, i) /\ body[p][i] = copy[p][i]
  BY <1>1 DEF Covered
<1>4. p \in DOMAIN new /\ new[p] = Merge(body[p], c[p])
  BY <1>2, <1>3 DEF Preserved, Has
<1>5. i \in DOMAIN Merge(body[p], c[p]) /\ Merge(body[p], c[p])[i] = c[p][i]
  BY <1>2, <1>3 DEF Merge, Has
<1> QED BY <1>2, <1>4, <1>5 DEF Has

\* The masks of a changed copy are where they were, and mean what they meant.
Within(newView, newMeant, v, m) ==
    \A p \in DOMAIN newView : \A i \in DOMAIN newView[p] :
        newView[p][i] \in Masks =>
            Has(v, p, i) /\ v[p][i] = newView[p][i] /\ m[p][i] = newMeant[p][i]

LEMMA WithinFacts ==
  ASSUME NEW newView, NEW newMeant, NEW v, NEW m, Within(newView, newMeant, v, m)
  PROVE  /\ \A c : Right(c, v, m) => Right(c, newView, newMeant)
         /\ \A other : Covered(v, other) => Covered(newView, other)
<1>1. ASSUME NEW c, Right(c, v, m) PROVE Right(c, newView, newMeant)
  <2> SUFFICES ASSUME NEW p \in DOMAIN newView, NEW i \in DOMAIN newView[p], newView[p][i] \in Masks
               PROVE  Has(c, p, i) /\ Masked(c[p][i]) = newView[p][i] /\ c[p][i] = newMeant[p][i]
    BY DEF Right
  <2>1. Has(v, p, i) /\ v[p][i] = newView[p][i] /\ m[p][i] = newMeant[p][i]
    BY DEF Within
  <2>2. p \in DOMAIN v /\ i \in DOMAIN v[p] /\ v[p][i] \in Masks
    BY <2>1 DEF Has
  <2>3. Has(c, p, i) /\ Masked(c[p][i]) = v[p][i] /\ c[p][i] = m[p][i]
    BY <1>1, <2>2 DEF Right
  <2> QED BY <2>1, <2>3
<1>2. ASSUME NEW other, Covered(v, other) PROVE Covered(newView, other)
  <2> SUFFICES ASSUME NEW p \in DOMAIN newView, NEW i \in DOMAIN newView[p], newView[p][i] \in Masks
               PROVE  Has(other, p, i) /\ other[p][i] = newView[p][i]
    BY DEF Covered
  <2>1. Has(v, p, i) /\ v[p][i] = newView[p][i]
    BY DEF Within
  <2>2. p \in DOMAIN v /\ i \in DOMAIN v[p] /\ v[p][i] \in Masks
    BY <2>1 DEF Has
  <2> QED BY <1>2, <2>1, <2>2 DEF Covered
<1> QED BY <1>1, <1>2

\* What remains of a list when one key is deleted.
LEMMA RemoveAtFacts ==
  ASSUME NEW list \in Seq(Entries), NEW j \in DOMAIN list
  PROVE  /\ RemoveAt(list, j) \in Seq(Entries)
         /\ Len(RemoveAt(list, j)) = Len(list) - 1
         /\ \A i \in 1..Len(list)-1 : RemoveAt(list, j)[i] = IF i < j THEN list[i] ELSE list[i+1]
<1> DEFINE front == SubSeq(list, 1, j-1)
           back == SubSeq(list, j+1, Len(list))
<1>1. j \in 1..Len(list) /\ Len(list) \in Nat /\ \A i \in 1..Len(list) : list[i] \in Entries
  OBVIOUS
<1>2. front \in Seq(Entries) /\ Len(front) = j-1 /\ \A i \in 1..j-1 : front[i] = list[i]
  <2> DEFINE m == j - 1
  <2>1. 1 \in Int /\ m \in Nat /\ \A i \in 1..m : list[i] \in Entries
    BY <1>1
  <2> HIDE DEF m
  <2>2. /\ SubSeq(list, 1, m) \in Seq(Entries)
        /\ Len(SubSeq(list, 1, m)) = IF 1 <= m THEN m - 1 + 1 ELSE 0
        /\ \A i \in 1..m-1+1 : SubSeq(list, 1, m)[i] = list[1+i-1]
    BY <2>1, SubSeqProperties
  <2>3. Len(SubSeq(list, 1, m)) = m /\ \A i \in 1..m : SubSeq(list, 1, m)[i] = list[i]
    BY <2>1, <2>2
  <2> QED BY <2>2, <2>3 DEF m
<1>3. back \in Seq(Entries) /\ Len(back) = Len(list) - j /\ \A i \in 1..Len(list)-j : back[i] = list[j+i]
  <2> DEFINE m == j + 1
             n == Len(list)
  <2>1. m \in Int /\ n \in Nat /\ m <= n + 1 /\ \A i \in m..n : list[i] \in Entries
    BY <1>1
  <2> HIDE DEF m, n
  <2>2. /\ SubSeq(list, m, n) \in Seq(Entries)
        /\ Len(SubSeq(list, m, n)) = IF m <= n THEN n - m + 1 ELSE 0
        /\ \A i \in 1..n-m+1 : SubSeq(list, m, n)[i] = list[m+i-1]
    BY <2>1, SubSeqProperties
  <2>3. Len(SubSeq(list, m, n)) = n - m + 1
    BY <2>1, <2>2
  <2>4. n - m + 1 = Len(list) - j /\ \A i \in 1..Len(list)-j : m+i-1 = j+i
    BY <1>1 DEF m, n
  <2>5. \A i \in 1..Len(list)-j : SubSeq(list, m, n)[i] = list[j+i]
    BY <2>2, <2>4
  <2> QED BY <2>2, <2>3, <2>4, <2>5 DEF m, n
<1>4. RemoveAt(list, j) = front \o back
  BY DEF RemoveAt
<1> HIDE DEF front, back
<1>5. (front \o back) \in Seq(Entries) /\ Len(front \o back) = Len(list) - 1
  BY <1>1, <1>2, <1>3
<1>6. \A i \in 1..Len(list)-1 : (front \o back)[i] = IF i < j THEN list[i] ELSE list[i+1]
  <2> TAKE i \in 1..Len(list)-1
  <2>1. (front \o back)[i] = IF i <= Len(front) THEN front[i] ELSE back[i - Len(front)]
    <3>1. i \in 1 .. Len(front) + Len(back)
      BY <1>1, <1>2, <1>3
    <3>2. front \in Seq(Entries) /\ back \in Seq(Entries)
      BY <1>2, <1>3
    <3> QED BY <3>1, <3>2, ConcatProperties
  <2>2. CASE i < j
    BY <1>1, <1>2, <2>1, <2>2
  <2>3. CASE ~(i < j)
    <3>1. i - (j-1) \in 1..Len(list)-j /\ j + (i - (j-1)) = i+1
      BY <1>1, <2>3
    <3> QED BY <1>1, <1>2, <1>3, <2>1, <2>3, <3>1, SMTT(20)
  <2> QED BY <2>2, <2>3
<1> QED BY <1>4, <1>5, <1>6

\* One list of a configuration changes.
LEMMA ChangeTypes ==
  ASSUME NEW c \in KeyMap, NEW p \in DOMAIN c, NEW list \in Seq(Entries)
  PROVE  /\ [c EXCEPT ![p] = list] \in KeyMap
         /\ DOMAIN [c EXCEPT ![p] = list] = DOMAIN c
         /\ \A q \in DOMAIN c : [c EXCEPT ![p] = list][q] = IF q = p THEN list ELSE c[q]
<1> DEFINE new == [c EXCEPT ![p] = list]
<1>1. DOMAIN new = DOMAIN c /\ \A q \in DOMAIN c : new[q] = IF q = p THEN list ELSE c[q]
  BY KeyMapFacts
<1>2. new = [q \in DOMAIN new |-> new[q]]
  BY <1>1, KeyMapFacts
<1>3. DOMAIN c \subseteq Profiles /\ \A q \in DOMAIN c : c[q] \in Seq(Entries)
  BY KeyMapFacts
<1> HIDE DEF new
<1>4. new \in KeyMap
  BY <1>1, <1>2, <1>3, KeyMapFacts
<1> QED BY <1>1, <1>4 DEF new

\* Nobody has loaded anything yet.
LEMMA KeysInitOK == KeysInit => KeysInv
<1> SUFFICES ASSUME KeysInit PROVE KeysInv
  OBVIOUS
<1>1. Nothing \in KeyMap /\ Plain(Nothing, Nothing)
  BY KeyMapFacts DEF Nothing, Plain
<1>2. \A c \in KeyConfigs : c \in KeyMap
  <2>1. Lists \subseteq Seq(Entries)
    BY MaskedKeysAssumption DEF Lists, SeqOf, Entries
  <2> QED BY <2>1 DEF KeyConfigs, KeyMap
<1>3. KeysTypeOK
  BY <1>1, <1>2, MaskedKeysAssumption DEF KeysInit, KeysTypeOK
<1>4. \A t \in Tabs : ~fresh[t] /\ Plain(view[t], meant[t])
  BY <1>1 DEF KeysInit
<1>5. puts = {}
  BY DEF KeysInit
<1> QED BY <1>3, <1>4, <1>5 DEF KeysInv, CopiesInv, TabsInv, SentInv, ReadInv

\* What a user sends keeps the invariant, if what does not move is where it was.
\* The new PUT has the highest number: no other follows it.
LEMMA SendKeeps ==
  ASSUME KeysInv, NEW t \in Tabs, NEW newView \in KeyMap, NEW newMeant \in KeyMap, NEW inPlace \in BOOLEAN,
         Send(t, newView, newMeant, inPlace), Plain(newView, newMeant),
         inPlace => Within(newView, newMeant, view[t], meant[t])
  PROVE  KeysInv'
<1> DEFINE z == [from |-> t, id |-> saves', body |-> newView, meant |-> newMeant,
                 good |-> fresh[t] /\ ~moved'[t], phase |-> "sent", current |-> Nothing]
<1>1. /\ saves' = saves + 1 /\ puts' = puts \cup {z} /\ stored' = stored /\ fresh' = fresh
      /\ view' = [view EXCEPT ![t] = newView] /\ meant' = [meant EXCEPT ![t] = newMeant]
      /\ moved' = [moved EXCEPT ![t] = @ \/ ~inPlace]
  BY DEF Send
<1>2. KeysTypeOK /\ CopiesInv /\ TabsInv /\ SentInv /\ ReadInv
  BY DEF KeysInv
<1>3. /\ view'[t] = newView /\ meant'[t] = newMeant /\ moved'[t] = (moved[t] \/ ~inPlace)
      /\ \A u \in Tabs \ {t} : view'[u] = view[u] /\ meant'[u] = meant[u] /\ moved'[u] = moved[u]
  BY <1>1, <1>2 DEF KeysTypeOK
<1>4. /\ z.from = t /\ z.id = saves + 1 /\ z.body = newView /\ z.meant = newMeant
      /\ z.good = (fresh[t] /\ ~moved'[t]) /\ z.phase = "sent"
  BY <1>1
<1>5. Nothing \in KeyMap /\ saves \in Nat /\ \A x \in puts : x.id \in Nat /\ x.id <= saves
  BY <1>2, KeyMapFacts DEF Nothing, KeysTypeOK, PutRecord
<1>6. KeysTypeOK'
  <2>1. z \in PutRecord
    BY <1>1, <1>2, <1>3, <1>5 DEF PutRecord, KeysTypeOK
  <2>2. \A x \in puts' : x.id <= saves'
    BY <1>1, <1>4, <1>5
  <2> HIDE DEF z
  <2>3. view' \in [Tabs -> KeyMap] /\ meant' \in [Tabs -> KeyMap] /\ moved' \in [Tabs -> BOOLEAN]
    BY <1>1, <1>2 DEF KeysTypeOK
  <2> QED BY <1>1, <1>2, <1>5, <2>1, <2>2, <2>3 DEF KeysTypeOK
<1> HIDE DEF z
<1>7. CopiesInv'
  BY <1>1, <1>2, <1>3, <1>4 DEF CopiesInv
<1>8. ASSUME fresh[t], ~moved'[t]
      PROVE  /\ Right(stored, newView, newMeant)
             /\ \A x \in puts : x.from = t => Ready(x, newView, newMeant)
  <2>1. inPlace /\ ~moved[t]
    BY <1>3, <1>8
  <2>2. Within(newView, newMeant, view[t], meant[t])
    BY <2>1
  <2>3. Right(stored, view[t], meant[t]) /\ \A x \in puts : x.from = t => Ready(x, view[t], meant[t])
    BY <1>2, <1>8, <2>1 DEF TabsInv
  <2> QED BY <2>2, <2>3, WithinFacts DEF Ready
<1>9. TabsInv'
  <2>1. SUFFICES ASSUME NEW u \in Tabs, fresh[u], ~moved'[u]
                 PROVE  /\ Right(stored, view'[u], meant'[u])
                        /\ \A x \in puts' : x.from = u => Ready(x, view'[u], meant'[u])
    BY <1>1 DEF TabsInv, Right, Ready
  <2>2. CASE u = t
    <3>1. Ready(z, newView, newMeant)
      BY <1>4 DEF Ready, Covered, Has
    <3> QED BY <1>1, <1>3, <1>8, <2>1, <2>2, <3>1
  <2>3. CASE u # t
    BY <1>1, <1>2, <1>3, <1>4, <2>1, <2>3 DEF TabsInv
  <2> QED BY <2>2, <2>3
<1>10. SentInv'
  <2>1. SUFFICES ASSUME NEW y \in puts', y.good, y.phase = "sent"
                 PROVE  /\ Right(stored, y.body, y.meant)
                        /\ \A x \in puts' : Follows(y, x) => Ready(x, y.body, y.meant)
    BY <1>1 DEF SentInv, Right, Ready, Follows
  <2>2. ~Follows(y, z)
    BY <1>1, <1>4, <1>5 DEF Follows
  <2>3. CASE y \in puts
    BY <1>1, <1>2, <2>1, <2>2, <2>3 DEF SentInv
  <2>4. CASE y = z
    BY <1>1, <1>4, <1>8, <2>1, <2>2, <2>4 DEF Follows
  <2> QED BY <1>1, <2>3, <2>4
<1>11. ReadInv'
  BY <1>1, <1>2, <1>4 DEF ReadInv
<1> QED BY <1>6, <1>7, <1>9, <1>10, <1>11 DEF KeysInv

\* What is loaded is what is stored, masked; the PUTs of the tab belong to none.
LEMMA LoadKeeps == ASSUME KeysInv, NEW t \in Tabs, Load(t) PROVE KeysInv'
<1> DEFINE shown == [p \in DOMAIN stored |-> MaskList(stored[p])]
           Left(x) == [x EXCEPT !.from = IF @ = t THEN NoTab ELSE @]
<1>1. /\ view' = [view EXCEPT ![t] = shown] /\ meant' = [meant EXCEPT ![t] = stored]
      /\ fresh' = [fresh EXCEPT ![t] = TRUE] /\ moved' = [moved EXCEPT ![t] = FALSE]
      /\ puts' = {Left(x) : x \in puts} /\ stored' = stored /\ saves' = saves
  BY DEF Load
<1>2. KeysTypeOK /\ CopiesInv /\ TabsInv /\ SentInv /\ ReadInv
  BY DEF KeysInv
<1>3. \A x \in puts :
         /\ Left(x) \in PutRecord
         /\ Left(x).from = IF x.from = t THEN NoTab ELSE x.from
         /\ Left(x).id = x.id /\ Left(x).body = x.body /\ Left(x).meant = x.meant
         /\ Left(x).good = x.good /\ Left(x).phase = x.phase /\ Left(x).current = x.current
  BY <1>2 DEF KeysTypeOK, PutRecord
<1>4. stored \in KeyMap /\ \A p \in DOMAIN stored : stored[p] \in Seq(Entries)
  BY <1>2, KeyMapFacts DEF KeysTypeOK
<1>5. shown \in KeyMap
  <2>1. \A p \in DOMAIN stored : MaskList(stored[p]) \in Seq(Entries)
    BY <1>4, MergeTypes
  <2> QED BY <1>4, <2>1, KeyMapFacts
<1>6. ASSUME NEW p \in DOMAIN stored
      PROVE  /\ DOMAIN shown[p] = DOMAIN stored[p]
             /\ \A i \in DOMAIN stored[p] : shown[p][i] = Masked(stored[p][i]) /\ shown[p][i] \in Masks
  <2>1. \A i \in DOMAIN stored[p] : stored[p][i] \in Entries
    BY <1>4
  <2> QED BY <2>1, MaskedFacts DEF MaskList
<1>7. DOMAIN shown = DOMAIN stored
  OBVIOUS
<1> HIDE DEF shown, Left
<1>8. Plain(shown, stored) /\ Right(stored, shown, stored)
  BY <1>6, <1>7 DEF Plain, Right, Has
<1>9. /\ view'[t] = shown /\ meant'[t] = stored
      /\ \A u \in Tabs \ {t} : /\ view'[u] = view[u] /\ meant'[u] = meant[u]
                              /\ fresh'[u] = fresh[u] /\ moved'[u] = moved[u]
  BY <1>1, <1>2 DEF KeysTypeOK
<1>10. KeysTypeOK'
  <2>1. view' \in [Tabs -> KeyMap] /\ meant' \in [Tabs -> KeyMap]
    BY <1>1, <1>2, <1>4, <1>5 DEF KeysTypeOK
  <2>2. fresh' \in [Tabs -> BOOLEAN] /\ moved' \in [Tabs -> BOOLEAN]
    BY <1>1, <1>2 DEF KeysTypeOK
  <2>3. puts' \subseteq PutRecord /\ \A x \in puts' : x.id <= saves'
    BY <1>1, <1>2, <1>3 DEF KeysTypeOK
  <2> QED BY <1>1, <1>2, <2>1, <2>2, <2>3 DEF KeysTypeOK
<1>11. CopiesInv'
  BY <1>1, <1>2, <1>3, <1>8, <1>9 DEF CopiesInv
<1>12. TabsInv'
  <2>1. SUFFICES ASSUME NEW u \in Tabs, fresh'[u], ~moved'[u]
                 PROVE  /\ Right(stored, view'[u], meant'[u])
                        /\ \A y \in puts' : y.from = u => Ready(y, view'[u], meant'[u])
    BY <1>1 DEF TabsInv, Right, Ready
  <2>2. NoTab \notin Tabs
    BY MaskedKeysAssumption
  <2>3. CASE u = t
    <3>1. \A y \in puts' : y.from # t
      BY <1>1, <1>3, <2>2
    <3> QED BY <1>8, <1>9, <2>3, <3>1
  <2>4. CASE u # t
    <3>1. Right(stored, view[u], meant[u]) /\ \A x \in puts : x.from = u => Ready(x, view[u], meant[u])
      BY <1>2, <1>9, <2>1, <2>4 DEF TabsInv
    <3>2. \A y \in puts' : y.from = u => Ready(y, view[u], meant[u])
      BY <1>1, <1>3, <2>2, <3>1 DEF Ready
    <3> QED BY <1>9, <2>4, <3>1, <3>2
  <2> QED BY <2>3, <2>4
<1>13. SentInv'
  <2>1. SUFFICES ASSUME NEW y \in puts, y.good, y.phase = "sent"
                 PROVE  /\ Right(stored, y.body, y.meant)
                        /\ \A x \in puts : Follows(Left(y), Left(x)) => Ready(Left(x), y.body, y.meant)
    BY <1>1, <1>3 DEF SentInv, Right, Ready, Follows
  <2>2. \A x \in puts : Follows(Left(y), Left(x)) => Follows(y, x)
    BY <1>3, MaskedKeysAssumption DEF Follows
  <2>3. \A x \in puts : Follows(y, x) => Ready(Left(x), y.body, y.meant)
    BY <1>2, <1>3, <2>1 DEF SentInv, Ready
  <2> QED BY <1>2, <2>1, <2>2, <2>3 DEF SentInv
<1>14. ReadInv'
  BY <1>1, <1>2, <1>3 DEF ReadInv
<1> QED BY <1>10, <1>11, <1>12, <1>13, <1>14 DEF KeysInv

\* An appended key is a key, and no mask.
LEMMA AddKeyKeeps == ASSUME KeysInv, NEW t \in Tabs, AddKey(t) PROVE KeysInv'
<1>1. PICK p \in DOMAIN view[t], k \in Keys :
        Send(t, [view[t] EXCEPT ![p] = Append(@, k)], [meant[t] EXCEPT ![p] = Append(@, k)], TRUE)
  BY DEF AddKey
<1> DEFINE v == view[t]
           m == meant[t]
           list == Append(v[p], k)
           means == Append(m[p], k)
           newView == [v EXCEPT ![p] = list]
           newMeant == [m EXCEPT ![p] = means]
<1>2. Send(t, newView, newMeant, TRUE)
  BY <1>1
<1>3. v \in KeyMap /\ m \in KeyMap /\ Plain(v, m) /\ p \in DOMAIN v
  BY DEF KeysInv, KeysTypeOK, CopiesInv
<1> HIDE DEF v, m
<1>4. v[p] \in Seq(Entries) /\ m[p] \in Seq(Entries) /\ Len(v[p]) = Len(m[p]) /\ p \in DOMAIN m
  <2>1. v[p] \in Seq(Entries) /\ m[p] \in Seq(Entries) /\ DOMAIN v[p] = DOMAIN m[p] /\ p \in DOMAIN m
    BY <1>3, KeyMapFacts DEF Plain
  <2> QED BY <2>1
<1>5. /\ list \in Seq(Entries) /\ means \in Seq(Entries) /\ DOMAIN list = DOMAIN means
      /\ \A i \in DOMAIN list : \/ i \in DOMAIN v[p] /\ list[i] = v[p][i] /\ means[i] = m[p][i]
                                \/ list[i] = k /\ means[i] = k
  BY <1>4 DEF Entries
<1> HIDE DEF list, means
<1>6. /\ newView \in KeyMap /\ newMeant \in KeyMap
      /\ DOMAIN newView = DOMAIN v /\ DOMAIN newMeant = DOMAIN m
      /\ \A q \in DOMAIN v : newView[q] = IF q = p THEN list ELSE v[q]
      /\ \A q \in DOMAIN m : newMeant[q] = IF q = p THEN means ELSE m[q]
  BY <1>3, <1>4, <1>5, ChangeTypes
<1> HIDE DEF newView, newMeant
<1>7. k \notin Masks
  BY MaskedKeysAssumption
<1>8. Plain(newView, newMeant)
  BY <1>3, <1>5, <1>6 DEF Plain
<1>9. Within(newView, newMeant, v, m)
  BY <1>3, <1>5, <1>6, <1>7 DEF Within, Plain, Has
<1> QED BY <1>2, <1>6, <1>8, <1>9, SendKeeps DEF v, m

\* Deleting the last key moves no other.
LEMMA DeleteKeyKeeps == ASSUME KeysInv, NEW t \in Tabs, DeleteKey(t) PROVE KeysInv'
<1>1. PICK p \in DOMAIN view[t] : \E j \in DOMAIN view[t][p] :
        Send(t, [view[t] EXCEPT ![p] = RemoveAt(@, j)], [meant[t] EXCEPT ![p] = RemoveAt(@, j)],
             j = Len(view[t][p]))
  BY DEF DeleteKey
<1> DEFINE v == view[t]
           m == meant[t]
<1>2. PICK j \in DOMAIN v[p] :
        Send(t, [v EXCEPT ![p] = RemoveAt(v[p], j)], [m EXCEPT ![p] = RemoveAt(m[p], j)], j = Len(v[p]))
  BY <1>1
<1> DEFINE list == RemoveAt(v[p], j)
           means == RemoveAt(m[p], j)
           newView == [v EXCEPT ![p] = list]
           newMeant == [m EXCEPT ![p] = means]
<1>3. v \in KeyMap /\ m \in KeyMap /\ Plain(v, m) /\ p \in DOMAIN v
  BY DEF KeysInv, KeysTypeOK, CopiesInv
<1>4. Send(t, newView, newMeant, j = Len(v[p]))
  BY <1>2
<1> HIDE DEF v, m
<1>5. v[p] \in Seq(Entries) /\ m[p] \in Seq(Entries) /\ DOMAIN v[p] = DOMAIN m[p] /\ p \in DOMAIN m
  BY <1>3, KeyMapFacts DEF Plain
<1>6. Len(v[p]) = Len(m[p]) /\ j \in DOMAIN m[p] /\ j \in 1..Len(v[p]) /\ DOMAIN v[p] = 1..Len(v[p])
  BY <1>5
<1>7. /\ list \in Seq(Entries) /\ means \in Seq(Entries)
      /\ Len(list) = Len(v[p]) - 1 /\ Len(means) = Len(v[p]) - 1
      /\ \A i \in 1..Len(v[p])-1 : /\ list[i] = IF i < j THEN v[p][i] ELSE v[p][i+1]
                                   /\ means[i] = IF i < j THEN m[p][i] ELSE m[p][i+1]
  BY <1>5, <1>6, RemoveAtFacts
<1>8. DOMAIN list = 1..Len(v[p])-1 /\ DOMAIN means = 1..Len(v[p])-1
  BY <1>7
<1> HIDE DEF list, means
<1>9. /\ newView \in KeyMap /\ newMeant \in KeyMap
      /\ DOMAIN newView = DOMAIN v /\ DOMAIN newMeant = DOMAIN m
      /\ \A q \in DOMAIN v : newView[q] = IF q = p THEN list ELSE v[q]
      /\ \A q \in DOMAIN m : newMeant[q] = IF q = p THEN means ELSE m[q]
  BY <1>3, <1>5, <1>7, ChangeTypes
<1> HIDE DEF newView, newMeant
<1>10. Plain(newView, newMeant)
  <2>1. \A i \in 1..Len(v[p])-1 : i \in 1..Len(v[p]) /\ i+1 \in 1..Len(v[p])
    BY <1>5
  <2>2. \A i \in DOMAIN list : list[i] \notin Masks => list[i] = means[i]
    BY <1>3, <1>6, <1>7, <1>8, <2>1 DEF Plain
  <2> QED BY <1>3, <1>8, <1>9, <2>2 DEF Plain
<1>11. ASSUME j = Len(v[p]) PROVE Within(newView, newMeant, v, m)
  <2>1. \A i \in DOMAIN list : i \in DOMAIN v[p] /\ list[i] = v[p][i] /\ means[i] = m[p][i]
    <3>1. \A i \in 1..Len(v[p])-1 : i < j /\ i \in 1..Len(v[p])
      BY <1>5, <1>11
    <3> QED BY <1>6, <1>7, <1>8, <3>1
  <2> QED BY <1>3, <1>9, <2>1 DEF Within, Plain, Has
<1>12. (j = Len(v[p])) \in BOOLEAN
  OBVIOUS
<1> QED BY <1>4, <1>9, <1>10, <1>11, <1>12, SendKeeps DEF v, m

\* A profile under another name has moved.
LEMMA RenameKeeps ==
  ASSUME KeysInv, NEW t \in Tabs, RenameProfile(t) \/ DuplicateProfile(t)
  PROVE  KeysInv'
<1>1. PICK p \in DOMAIN view[t], q \in Profiles \ DOMAIN view[t] :
        \/ Send(t, Renamed(view[t], p, q), Renamed(meant[t], p, q), FALSE)
        \/ Send(t, Duplicated(view[t], p, q), Duplicated(meant[t], p, q), FALSE)
  BY DEF RenameProfile, DuplicateProfile
<1>2. view[t] \in KeyMap /\ meant[t] \in KeyMap /\ Plain(view[t], meant[t]) /\ p \in DOMAIN meant[t]
  BY DEF KeysInv, KeysTypeOK, CopiesInv, Plain
<1>3. \A c \in KeyMap : p \in DOMAIN c => Renamed(c, p, q) \in KeyMap /\ Duplicated(c, p, q) \in KeyMap
  <2> TAKE c \in KeyMap
  <2> HAVE p \in DOMAIN c
  <2>1. DOMAIN c \subseteq Profiles /\ \A x \in DOMAIN c : c[x] \in Seq(Entries)
    BY KeyMapFacts
  <2>2. Renamed(c, p, q) \in KeyMap
    BY <2>1, KeyMapFacts DEF Renamed
  <2>3. Duplicated(c, p, q) \in KeyMap
    BY <2>1, KeyMapFacts DEF Duplicated
  <2> QED BY <2>2, <2>3
<1>4. Plain(Renamed(view[t], p, q), Renamed(meant[t], p, q))
  BY <1>2 DEF Plain, Renamed
<1>5. Plain(Duplicated(view[t], p, q), Duplicated(meant[t], p, q))
  BY <1>2 DEF Plain, Duplicated
<1>6. CASE Send(t, Renamed(view[t], p, q), Renamed(meant[t], p, q), FALSE)
  BY <1>2, <1>3, <1>4, <1>6, SendKeeps
<1>7. CASE Send(t, Duplicated(view[t], p, q), Duplicated(meant[t], p, q), FALSE)
  BY <1>2, <1>3, <1>5, <1>7, SendKeeps
<1> QED BY <1>1, <1>6, <1>7

\* The copy goes along as it is.
LEMMA SaveOtherKeeps == ASSUME KeysInv, NEW t \in Tabs, SaveOther(t) PROVE KeysInv'
<1>1. Send(t, view[t], meant[t], TRUE)
  BY DEF SaveOther
<1>2. view[t] \in KeyMap /\ meant[t] \in KeyMap /\ Plain(view[t], meant[t])
  BY DEF KeysInv, KeysTypeOK, CopiesInv
<1>3. Within(view[t], meant[t], view[t], meant[t])
  BY DEF Within, Has
<1> QED BY <1>1, <1>2, <1>3, SendKeeps

\* What a PUT reads is what is stored, and all that were right for it are right.
LEMMA ReadKeeps == ASSUME KeysInv, NEW x \in puts, ReadCurrent(x) PROVE KeysInv'
<1> DEFINE z == [x EXCEPT !.phase = "read", !.current = stored]
<1>1. /\ x.phase = "sent" /\ puts' = (puts \ {x}) \cup {z}
      /\ UNCHANGED <<stored, view, meant, fresh, moved, saves>>
  BY DEF ReadCurrent, history
<1>2. KeysTypeOK /\ CopiesInv /\ TabsInv /\ SentInv /\ ReadInv
  BY DEF KeysInv
<1>3. /\ z \in PutRecord /\ z.from = x.from /\ z.id = x.id /\ z.body = x.body /\ z.meant = x.meant
      /\ z.good = x.good /\ z.phase = "read" /\ z.current = stored
  BY <1>2 DEF KeysTypeOK, PutRecord
<1> HIDE DEF z
<1>4. KeysTypeOK'
  BY <1>1, <1>2, <1>3 DEF KeysTypeOK
<1>5. CopiesInv'
  BY <1>1, <1>2, <1>3 DEF CopiesInv
<1>6. TabsInv'
  <2>1. SUFFICES ASSUME NEW u \in Tabs, fresh[u], ~moved[u], NEW y \in puts', y.from = u
                 PROVE  Ready(y, view[u], meant[u])
    BY <1>1, <1>2 DEF TabsInv, Right, Ready
  <2>2. Right(stored, view[u], meant[u]) /\ \A w \in puts : w.from = u => Ready(w, view[u], meant[u])
    BY <1>2, <2>1 DEF TabsInv
  <2> QED BY <1>1, <1>3, <2>1, <2>2 DEF Ready
<1>7. SentInv'
  <2>1. SUFFICES ASSUME NEW y \in puts', y.good, y.phase = "sent"
                 PROVE  /\ Right(stored, y.body, y.meant)
                        /\ \A w \in puts' : Follows(y, w) => Ready(w, y.body, y.meant)
    BY <1>1 DEF SentInv, Right, Ready, Follows
  <2>2. y \in puts
    BY <1>1, <1>3, <2>1
  <2>3. Right(stored, y.body, y.meant) /\ \A w \in puts : Follows(y, w) => Ready(w, y.body, y.meant)
    BY <1>2, <2>1, <2>2 DEF SentInv
  <2>4. Follows(y, z) => Follows(y, x)
    BY <1>3 DEF Follows
  <2>5. Follows(y, z) => Ready(z, y.body, y.meant)
    BY <1>3, <2>3, <2>4 DEF Ready
  <2> QED BY <1>1, <2>3, <2>5
<1>8. ReadInv'
  <2>1. x.good => Right(stored, x.body, x.meant)
    BY <1>1, <1>2 DEF SentInv
  <2> QED BY <1>1, <1>2, <1>3, <2>1 DEF ReadInv
<1> QED BY <1>4, <1>5, <1>6, <1>7, <1>8 DEF KeysInv

\* A PUT less.
LEMMA RefuseKeeps == ASSUME KeysInv, NEW x \in puts, Refuse(x) PROVE KeysInv'
<1>1. puts' = puts \ {x} /\ UNCHANGED <<stored, view, meant, fresh, moved, saves>>
  BY DEF Refuse, history
<1>2. KeysTypeOK /\ CopiesInv /\ TabsInv /\ SentInv /\ ReadInv
  BY DEF KeysInv
<1>3. KeysTypeOK'
  BY <1>1, <1>2 DEF KeysTypeOK
<1>4. CopiesInv' /\ ReadInv'
  BY <1>1, <1>2 DEF CopiesInv, ReadInv
<1>5. TabsInv'
  BY <1>1, <1>2 DEF TabsInv, Right, Ready
<1>6. SentInv'
  BY <1>1, <1>2 DEF SentInv, Right, Ready, Follows
<1> QED BY <1>3, <1>4, <1>5, <1>6 DEF KeysInv

\* A PUT that is good no more is otherwise what it was.
LEMMA LessGood ==
  ASSUME KeysInv, NEW x \in puts, NEW g \in BOOLEAN
  PROVE  /\ [x EXCEPT !.good = @ /\ g] \in PutRecord
         /\ [x EXCEPT !.good = @ /\ g].good = (x.good /\ g)
         /\ [x EXCEPT !.good = @ /\ g].from = x.from
         /\ [x EXCEPT !.good = @ /\ g].id = x.id
         /\ [x EXCEPT !.good = @ /\ g].body = x.body
         /\ [x EXCEPT !.good = @ /\ g].meant = x.meant
         /\ [x EXCEPT !.good = @ /\ g].phase = x.phase
         /\ [x EXCEPT !.good = @ /\ g].current = x.current
<1>1. x \in PutRecord
  BY DEF KeysInv, KeysTypeOK
<1> QED BY <1>1 DEF PutRecord

\* What is stored is right for the tab's copy and for its later PUTs; the copies
\* of other tabs are out of date.
LEMMA StoreKeeps == ASSUME KeysInv, NEW x \in puts, Store(x) PROVE KeysInv'
<1> DEFINE After(y) == [y EXCEPT !.good = @ /\ (y.phase = "read" \/ Follows(y, x))]
           new == Preserved(x.body, x.current)
<1>1. /\ x.phase = "read" /\ stored' = new
      /\ fresh' = [t \in Tabs |-> t = x.from /\ fresh[t]]
      /\ puts' = {After(y) : y \in puts \ {x}}
      /\ UNCHANGED <<view, meant, moved, saves>>
  BY DEF Store
<1>2. KeysTypeOK /\ CopiesInv /\ TabsInv /\ SentInv /\ ReadInv
  BY DEF KeysInv
<1>3. \A y \in puts : (y.phase = "read" \/ Follows(y, x)) \in BOOLEAN
  BY DEF Follows
<1>4. \A y \in puts :
         /\ After(y) \in PutRecord /\ After(y).good = (y.good /\ (y.phase = "read" \/ Follows(y, x)))
         /\ After(y).from = y.from /\ After(y).id = y.id /\ After(y).body = y.body
         /\ After(y).meant = y.meant /\ After(y).phase = y.phase /\ After(y).current = y.current
  BY <1>3, LessGood
<1>5. new \in KeyMap
  <2>1. x.body \in KeyMap /\ x.current \in KeyMap
    BY <1>2 DEF KeysTypeOK, PutRecord
  <2> QED BY <2>1, PreservedTypes
<1> HIDE DEF After
<1>6. KeysTypeOK'
  <2>1. puts' \subseteq PutRecord /\ \A y \in puts' : y.id <= saves'
    BY <1>1, <1>2, <1>4 DEF KeysTypeOK
  <2>2. fresh' \in [Tabs -> BOOLEAN]
    BY <1>1, <1>2 DEF KeysTypeOK
  <2> QED BY <1>1, <1>2, <1>5, <2>1, <2>2 DEF KeysTypeOK
<1>7. CopiesInv'
  BY <1>1, <1>2, <1>4 DEF CopiesInv
<1>8. \A copy, m : Ready(x, copy, m) => Right(new, copy, m)
  BY <1>1, StoredRight DEF Ready
<1> HIDE DEF new
<1>9. TabsInv'
  <2>1. SUFFICES ASSUME NEW u \in Tabs, fresh'[u], ~moved[u]
                 PROVE  /\ Right(new, view[u], meant[u])
                        /\ \A y \in puts' : y.from = u => Ready(y, view[u], meant[u])
    BY <1>1 DEF TabsInv, Right, Ready
  <2>2. u = x.from /\ fresh[u]
    BY <1>1, <2>1
  <2>3. \A y \in puts : y.from = u => Ready(y, view[u], meant[u])
    BY <1>2, <2>1, <2>2 DEF TabsInv
  <2>4. \A y \in puts' : y.from = u => Ready(y, view[u], meant[u])
    BY <1>1, <1>4, <2>3 DEF Ready
  <2> QED BY <1>8, <2>2, <2>3, <2>4
<1>10. SentInv'
  <2>1. SUFFICES ASSUME NEW y \in puts, After(y).good, y.phase = "sent"
                 PROVE  /\ Right(new, y.body, y.meant)
                        /\ \A w \in puts : Follows(After(y), After(w)) => Ready(After(w), y.body, y.meant)
    BY <1>1, <1>4 DEF SentInv, Right, Ready, Follows
  <2>2. y.good /\ Follows(y, x)
    BY <1>4, <2>1
  <2>3. \A w \in puts : Follows(y, w) => Ready(w, y.body, y.meant)
    BY <1>2, <2>1, <2>2 DEF SentInv
  <2>4. \A w \in puts : Follows(After(y), After(w)) => Ready(After(w), y.body, y.meant)
    BY <1>4, <2>3 DEF Follows, Ready
  <2> QED BY <1>8, <2>2, <2>3, <2>4
<1>11. ReadInv'
  <2>1. ASSUME NEW y \in puts, After(y).good, After(y).phase = "read"
        PROVE  Right(After(y).current, After(y).body, After(y).meant)
    <3>1. y.good /\ y.phase = "read"
      BY <1>4, <2>1
    <3>2. Right(y.current, y.body, y.meant)
      BY <1>2, <3>1 DEF ReadInv
    <3> QED BY <1>4, <3>2
  <2> QED BY <1>1, <2>1 DEF ReadInv, Right
<1> QED BY <1>6, <1>7, <1>9, <1>10, <1>11 DEF KeysInv

\* No copy is fresh after a profile was created or deleted, and no PUT that is
\* still to read is good.
LEMMA ProfilesKeep ==
  ASSUME KeysInv, NEW t \in Tabs, AddProfile(t) \/ RemoveProfile(t)
  PROVE  KeysInv'
<1>1. PICK new : Change(t, new) /\ new \in KeyMap
  <2>1. stored \in KeyMap /\ DOMAIN stored \subseteq Profiles /\ \A x \in DOMAIN stored : stored[x] \in Seq(Entries)
    BY KeyMapFacts DEF KeysInv, KeysTypeOK
  <2>2. CASE AddProfile(t)
    <3>1. PICK p \in Profiles \ DOMAIN stored :
            Change(t, [x \in DOMAIN stored \cup {p} |-> IF x = p THEN <<>> ELSE stored[x]])
      BY <2>2 DEF AddProfile
    <3>2. [x \in DOMAIN stored \cup {p} |-> IF x = p THEN <<>> ELSE stored[x]] \in KeyMap
      <4> DEFINE new == [x \in DOMAIN stored \cup {p} |-> IF x = p THEN <<>> ELSE stored[x]]
      <4>1. <<>> \in Seq(Entries)
        OBVIOUS
      <4>2. \A x \in DOMAIN new : new[x] \in Seq(Entries)
        BY <2>1, <4>1
      <4> QED BY <2>1, <4>2, KeyMapFacts
    <3> QED BY <3>1, <3>2
  <2>3. CASE RemoveProfile(t)
    <3>1. PICK p \in DOMAIN stored : Change(t, [x \in DOMAIN stored \ {p} |-> stored[x]])
      BY <2>3 DEF RemoveProfile
    <3>2. [x \in DOMAIN stored \ {p} |-> stored[x]] \in KeyMap
      BY <2>1, KeyMapFacts
    <3> QED BY <3>1, <3>2
  <2> QED BY <2>2, <2>3
<1> DEFINE After(y) == [y EXCEPT !.good = @ /\ y.phase = "read"]
<1>2. /\ stored' = new /\ saves' = saves + 1 /\ fresh' = [u \in Tabs |-> FALSE]
      /\ puts' = {After(y) : y \in puts} /\ UNCHANGED <<view, meant, moved>>
  BY <1>1 DEF Change
<1>3. KeysTypeOK /\ CopiesInv /\ TabsInv /\ SentInv /\ ReadInv
  BY DEF KeysInv
<1>4. \A y \in puts : (y.phase = "read") \in BOOLEAN
  OBVIOUS
<1>5. \A y \in puts :
         /\ After(y) \in PutRecord /\ After(y).good = (y.good /\ y.phase = "read")
         /\ After(y).id = y.id /\ After(y).body = y.body
         /\ After(y).meant = y.meant /\ After(y).phase = y.phase /\ After(y).current = y.current
  BY <1>4, LessGood
<1> HIDE DEF After
<1>6. KeysTypeOK'
  <2>1. \A y \in puts : y.id \in Nat /\ y.id <= saves
    BY <1>3 DEF KeysTypeOK, PutRecord
  <2>2. saves' \in Nat /\ \A y \in puts : After(y).id <= saves'
    BY <1>2, <1>3, <1>5, <2>1 DEF KeysTypeOK
  <2>3. puts' \subseteq PutRecord /\ \A y \in puts' : y.id <= saves'
    BY <1>2, <1>5, <2>2
  <2>4. fresh' \in [Tabs -> BOOLEAN]
    BY <1>2
  <2> QED BY <1>1, <1>2, <1>3, <2>2, <2>3, <2>4 DEF KeysTypeOK
<1>7. CopiesInv'
  BY <1>2, <1>3, <1>5 DEF CopiesInv
<1>8. TabsInv'
  BY <1>2 DEF TabsInv
<1>9. \A y \in puts' : y.good => y.phase = "read"
  BY <1>2, <1>5
<1>10. SentInv'
  BY <1>9 DEF SentInv
<1>11. ReadInv'
  BY <1>2, <1>3, <1>5 DEF ReadInv
<1> QED BY <1>6, <1>7, <1>8, <1>10, <1>11 DEF KeysInv

\* Every step keeps the invariant.
LEMMA KeysNextOK == KeysInv /\ [KeysNext]_keysVars => KeysInv'
<1> SUFFICES ASSUME KeysInv, [KeysNext]_keysVars PROVE KeysInv'
  OBVIOUS
<1>1. CASE UNCHANGED keysVars
  BY <1>1 DEF keysVars, KeysInv, KeysTypeOK, CopiesInv, TabsInv, SentInv, ReadInv,
              Right, Ready, Follows
<1>2. CASE KeysNext
  <2>1. CASE \E t \in Tabs :
               \/ Load(t) \/ SaveOther(t) \/ AddKey(t) \/ DeleteKey(t)
               \/ RenameProfile(t) \/ DuplicateProfile(t) \/ AddProfile(t) \/ RemoveProfile(t)
    BY <2>1, LoadKeeps, SaveOtherKeeps, AddKeyKeeps, DeleteKeyKeeps, RenameKeeps, ProfilesKeep
  <2>2. CASE \E x \in puts : ReadCurrent(x) \/ Store(x) \/ Refuse(x)
    BY <2>2, ReadKeeps, StoreKeeps, RefuseKeeps
  <2> QED BY <1>2, <2>1, <2>2 DEF KeysNext
<1> QED BY <1>1, <1>2

\* What a good PUT stores.
LEMMA GoodStores ==
  ASSUME KeysInv, NEW x \in puts, Store(x), x.good
  PROVE  stored' = x.meant
<1>1. x \in PutRecord /\ Plain(x.body, x.meant) /\ Right(x.current, x.body, x.meant)
  BY DEF KeysInv, KeysTypeOK, CopiesInv, ReadInv, Store
<1>2. x.body \in KeyMap /\ x.current \in KeyMap /\ x.meant \in KeyMap
  BY <1>1 DEF PutRecord
<1>3. Preserved(x.body, x.current) = x.meant
  BY <1>1, <1>2, PreservedRight
<1> QED BY <1>3 DEF Store

\* api.rs preserve_masked_provider_keys: a PUT stores what its user saw, whatever
\* keys look alike and however many are under way, unless something was moved,
\* somebody else changed the keys, or a later PUT of its tab was stored first.
THEOREM StoresWhatIsMeant == KeysSpec => StoredAsMeant
<1>1. KeysSpec => []KeysInv
  BY KeysInitOK, KeysNextOK, PTL DEF KeysSpec
<1>2. KeysInv /\ [KeysNext]_keysVars =>
        [\A x \in puts : Store(x) /\ x.good => stored' = x.meant]_keysVars
  BY GoodStores
<1> QED BY <1>1, <1>2, PTL DEF KeysSpec, StoredAsMeant

\* What is stored, and what users see, are keys.
NoMasks(c) == \A p \in DOMAIN c : \A i \in DOMAIN c[p] : c[p][i] \in Keys

OnlyKeys ==
    NoMasks(stored) /\ (\A t \in Tabs : NoMasks(meant[t])) /\ \A x \in puts : NoMasks(x.meant)

\* What a user means has no masks, if what the user meant before had none.
LEMMA SendOnlyKeys ==
  ASSUME KeysInv, OnlyKeys, NEW t \in Tabs, NEW newView, NEW newMeant, NEW inPlace,
         Send(t, newView, newMeant, inPlace), NoMasks(newMeant)
  PROVE  OnlyKeys'
<1>1. meant \in [Tabs -> KeyMap]
  BY DEF KeysInv, KeysTypeOK
<1>2. stored' = stored /\ \A u \in Tabs : NoMasks(meant'[u])
  BY <1>1 DEF Send, OnlyKeys
<1>3. \A x \in puts' : x \in puts \/ x.meant = newMeant
  BY DEF Send
<1> QED BY <1>2, <1>3 DEF OnlyKeys, NoMasks

\* A changed list of keys is a list of keys.
LEMMA ChangesOnlyKeys ==
  ASSUME KeysInv, OnlyKeys, NEW t \in Tabs,
         SaveOther(t) \/ AddKey(t) \/ DeleteKey(t) \/ RenameProfile(t) \/ DuplicateProfile(t)
  PROVE  OnlyKeys'
<1> DEFINE v == view[t]
           m == meant[t]
<1>1. v \in KeyMap /\ m \in KeyMap /\ Plain(v, m) /\ NoMasks(m)
  BY DEF KeysInv, KeysTypeOK, CopiesInv, OnlyKeys
<1>2. CASE SaveOther(t)
  BY <1>1, <1>2, SendOnlyKeys DEF SaveOther
<1>3. CASE AddKey(t)
  <2>1. PICK p \in DOMAIN v, k \in Keys :
          Send(t, [v EXCEPT ![p] = Append(@, k)], [m EXCEPT ![p] = Append(m[p], k)], TRUE)
    BY <1>3 DEF AddKey
  <2> HIDE DEF v, m
  <2>2. p \in DOMAIN m /\ m[p] \in Seq(Entries)
    BY <1>1, KeyMapFacts DEF Plain
  <2>3. Append(m[p], k) \in Seq(Entries)
    BY <2>2 DEF Entries
  <2>4. \A i \in DOMAIN Append(m[p], k) : Append(m[p], k)[i] \in Keys
    BY <1>1, <2>2 DEF NoMasks
  <2>5. NoMasks([m EXCEPT ![p] = Append(m[p], k)])
    BY <1>1, <2>2, <2>3, <2>4, ChangeTypes DEF NoMasks
  <2> QED BY <2>1, <2>5, SendOnlyKeys
<1>4. CASE DeleteKey(t)
  <2>1. PICK p \in DOMAIN v : \E j \in DOMAIN v[p] :
          Send(t, [v EXCEPT ![p] = RemoveAt(@, j)], [m EXCEPT ![p] = RemoveAt(m[p], j)], j = Len(v[p]))
    BY <1>4 DEF DeleteKey
  <2>2. PICK j \in DOMAIN v[p] :
          Send(t, [v EXCEPT ![p] = RemoveAt(@, j)], [m EXCEPT ![p] = RemoveAt(m[p], j)], j = Len(v[p]))
    BY <2>1
  <2> HIDE DEF v, m
  <2>3. p \in DOMAIN m /\ m[p] \in Seq(Entries) /\ j \in DOMAIN m[p]
    BY <1>1, KeyMapFacts DEF Plain
  <2>4. /\ RemoveAt(m[p], j) \in Seq(Entries) /\ Len(RemoveAt(m[p], j)) = Len(m[p]) - 1
        /\ \A i \in 1..Len(m[p])-1 : RemoveAt(m[p], j)[i] = IF i < j THEN m[p][i] ELSE m[p][i+1]
    BY <2>3, RemoveAtFacts
  <2>5. \A i \in DOMAIN RemoveAt(m[p], j) : RemoveAt(m[p], j)[i] \in Keys
    <3>1. \A i \in 1..Len(m[p]) : m[p][i] \in Keys
      BY <1>1, <2>3 DEF NoMasks
    <3>2. \A i \in 1..Len(m[p])-1 : i \in 1..Len(m[p]) /\ i+1 \in 1..Len(m[p])
      BY <2>3
    <3>3. DOMAIN RemoveAt(m[p], j) = 1..Len(m[p])-1
      BY <2>4
    <3> QED BY <2>4, <3>1, <3>2, <3>3
  <2>6. NoMasks([m EXCEPT ![p] = RemoveAt(m[p], j)])
    BY <1>1, <2>3, <2>4, <2>5, ChangeTypes DEF NoMasks
  <2> QED BY <2>2, <2>6, SendOnlyKeys
<1>5. CASE RenameProfile(t)
  <2>1. PICK p \in DOMAIN v, q \in Profiles \ DOMAIN v : Send(t, Renamed(v, p, q), Renamed(m, p, q), FALSE)
    BY <1>5 DEF RenameProfile
  <2>2. NoMasks(Renamed(m, p, q))
    BY <1>1 DEF NoMasks, Renamed, Plain
  <2> QED BY <2>1, <2>2, SendOnlyKeys
<1>6. CASE DuplicateProfile(t)
  <2>1. PICK p \in DOMAIN v, q \in Profiles \ DOMAIN v : Send(t, Duplicated(v, p, q), Duplicated(m, p, q), FALSE)
    BY <1>6 DEF DuplicateProfile
  <2>2. NoMasks(Duplicated(m, p, q))
    BY <1>1 DEF NoMasks, Duplicated, Plain
  <2> QED BY <2>1, <2>2, SendOnlyKeys
<1> QED BY <1>2, <1>3, <1>4, <1>5, <1>6

\* Every step keeps what is stored and meant free of masks, if what is stored was
\* sent by a good PUT.
LEMMA OnlyKeysKept ==
  ASSUME KeysInv, OnlyKeys, [KeysNext]_keysVars, [\A x \in puts : Store(x) => x.good]_keysVars
  PROVE  OnlyKeys'
<1>1. CASE UNCHANGED keysVars
  BY <1>1 DEF keysVars, OnlyKeys, NoMasks
<1>2. ASSUME NEW t \in Tabs, Load(t) PROVE OnlyKeys'
  <2>1. stored' = stored /\ \A u \in Tabs : meant'[u] = stored \/ meant'[u] = meant[u]
    BY <1>2 DEF Load, KeysInv, KeysTypeOK
  <2>2. \A y \in puts' : \E x \in puts : y.meant = x.meant
    <3>1. \A x \in puts : [x EXCEPT !.from = IF @ = t THEN NoTab ELSE @].meant = x.meant
      BY DEF KeysInv, KeysTypeOK, PutRecord
    <3> QED BY <1>2, <3>1 DEF Load
  <2> QED BY <2>1, <2>2 DEF OnlyKeys
<1>3. ASSUME NEW t \in Tabs, AddProfile(t) \/ RemoveProfile(t) PROVE OnlyKeys'
  <2>1. meant' = meant /\ puts' = {[y EXCEPT !.good = @ /\ y.phase = "read"] : y \in puts}
    BY <1>3 DEF AddProfile, RemoveProfile, Change
  <2>2. \A y \in puts : [y EXCEPT !.good = @ /\ y.phase = "read"].meant = y.meant
    BY LessGood
  <2>3. \A y \in puts' : NoMasks(y.meant)
    BY <2>1, <2>2 DEF OnlyKeys
  <2>4. CASE AddProfile(t)
    <3>1. PICK p \in Profiles \ DOMAIN stored :
            stored' = [x \in DOMAIN stored \cup {p} |-> IF x = p THEN <<>> ELSE stored[x]]
      BY <2>4 DEF AddProfile, Change
    <3>2. stored'[p] = <<>> /\ DOMAIN <<>> = {}
      BY <3>1
    <3>3. \A x \in DOMAIN stored : stored'[x] = stored[x]
      BY <3>1
    <3>4. DOMAIN stored' = DOMAIN stored \cup {p}
      BY <3>1
    <3>5. NoMasks(stored')
      BY <3>2, <3>3, <3>4 DEF NoMasks, OnlyKeys
    <3> QED BY <2>1, <2>3, <3>5 DEF OnlyKeys
  <2>5. CASE RemoveProfile(t)
    <3>1. PICK p \in DOMAIN stored : stored' = [x \in DOMAIN stored \ {p} |-> stored[x]]
      BY <2>5 DEF RemoveProfile, Change
    <3>2. NoMasks(stored')
      BY <3>1 DEF NoMasks, OnlyKeys
    <3> QED BY <2>1, <2>3, <3>2 DEF OnlyKeys
  <2> QED BY <1>3, <2>4, <2>5
<1>4. ASSUME NEW x \in puts, ReadCurrent(x) \/ Refuse(x) PROVE OnlyKeys'
  <2>1. stored' = stored /\ meant' = meant
    BY <1>4 DEF ReadCurrent, Refuse, history
  <2>2. [x EXCEPT !.phase = "read", !.current = stored].meant = x.meant
    BY DEF KeysInv, KeysTypeOK, PutRecord
  <2>3. \A y \in puts' : \E w \in puts : y.meant = w.meant
    BY <1>4, <2>2 DEF ReadCurrent, Refuse
  <2> QED BY <2>1, <2>3 DEF OnlyKeys
<1>5. ASSUME NEW x \in puts, Store(x), x.good PROVE OnlyKeys'
  <2>1. stored' = x.meant /\ meant' = meant
    BY <1>5, GoodStores DEF Store
  <2>2. \A y \in puts : (y.phase = "read" \/ Follows(y, x)) \in BOOLEAN
    BY DEF Follows
  <2>3. \A y \in puts : [y EXCEPT !.good = @ /\ (y.phase = "read" \/ Follows(y, x))].meant = y.meant
    BY <2>2, LessGood
  <2>4. \A y \in puts' : \E w \in puts : y.meant = w.meant
    BY <1>5, <2>3 DEF Store
  <2> QED BY <2>1, <2>4 DEF OnlyKeys
<1> QED BY <1>1, <1>2, <1>3, <1>4, <1>5, ChangesOnlyKeys DEF KeysNext

\* api.rs merge_masked_key_list: a mask is stored in the place of a key only by a
\* PUT that is not good: of a tab in which something was moved, or whose keys
\* somebody else changed, or one that a later PUT of its tab has overtaken.
THEOREM GoodPutsStoreKeys ==
  KeysSpec /\ [][\A x \in puts : Store(x) => x.good]_keysVars => []KeysNotMasks
<1>1. KeysSpec => []KeysInv
  BY KeysInitOK, KeysNextOK, PTL DEF KeysSpec
<1>2. KeysInit => OnlyKeys
  BY MaskedKeysAssumption DEF KeysInit, OnlyKeys, NoMasks, Nothing, Range
<1>3. KeysInv /\ OnlyKeys /\ [KeysNext]_keysVars /\ [\A x \in puts : Store(x) => x.good]_keysVars => OnlyKeys'
  BY OnlyKeysKept
<1>4. OnlyKeys => KeysNotMasks
  BY DEF OnlyKeys, NoMasks, KeysNotMasks, Range
<1> QED BY <1>1, <1>2, <1>3, <1>4, PTL DEF KeysSpec
=============================================================================
