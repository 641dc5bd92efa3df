------------------------------ MODULE MaskedKeys ------------------------------
(***************************************************************************)
(* How API keys travel between the running configuration and the panel     *)
(* (src/src/panel/api.rs, src/src/panel/assets/app.js).  The browser gets  *)
(* keys masked, changes its copy and sends it back as a whole, and         *)
(* update_config puts a stored key where its mask came back at its place.  *)
(* Tabs know nothing of each other, and saveConfig does not wait for the   *)
(* save before: a tab may have several PUTs under way, each with the body  *)
(* it was sent with, which the proxy handles in any order.                 *)
(*                                                                         *)
(* One provider is modelled; providers do not affect each other.  A list   *)
(* of keys is a sequence, and a mask is a value that Mask maps to itself.  *)
(***************************************************************************)
EXTENDS Integers, Sequences, SequencesExt, FiniteSets

CONSTANTS
    Tabs,       \* browsers that have the panel open
    NoTab,      \* the tab of a PUT whose copy has been loaded anew since
    Profiles,   \* names of profiles
    Keys,       \* API keys
    MaskOf,     \* mask_key: what the panel shows of a key
    Initial,    \* configurations to start from
    MaxLength,  \* bound: keys of a profile
    MaxSaves    \* bound: changes sent to the proxy

Masks == {MaskOf[k] : k \in Keys}
Lists == SeqOf(Keys \cup Masks, MaxLength)
KeyConfigs == UNION {[S -> Lists] : S \in (SUBSET Profiles) \ {{}}}

ASSUME MaskedKeysAssumption ==
    /\ NoTab \notin Tabs
    /\ MaskOf \in [Keys -> Masks] /\ Keys \cap Masks = {}
    /\ Initial \subseteq KeyConfigs
    /\ \A c \in Initial : \A p \in DOMAIN c : Range(c[p]) \subseteq Keys
    /\ MaxLength \in Nat /\ MaxSaves \in Nat

VARIABLES
    stored,  \* provider_keys of each profile of the running configuration
    view,    \* the copy a tab works on
    meant,   \* history: the configuration the user of a tab sees in its copy
    fresh,   \* history: nobody else has changed anything since
    moved,   \* history: a key or a profile of the copy has changed its place
    puts,    \* PUTs under way: see Put
    saves    \* changes so far

history == <<meant, fresh, moved>>
keysVars == <<stored, view, meant, fresh, moved, puts, saves>>

(***************************************************************************)
(* A PUT is "sent", and "read" once update_config has loaded the current   *)
(* configuration, which it compares the body with.  History: what its user *)
(* meant, and whether it is good: nothing had moved when it was sent, and  *)
(* until it read, nobody else changed anything and no later PUT of its tab *)
(* was stored.                                                             *)
(***************************************************************************)
Put == [from : Tabs \cup {NoTab}, id : 1 .. MaxSaves, body : KeyConfigs, meant : KeyConfigs,
        good : BOOLEAN, phase : {"sent", "read"}, current : KeyConfigs \cup {[p \in {} |-> <<>>]}]

Nothing == [p \in {} |-> <<>>]

\* mask_key: the mask of a mask is that mask.
Masked(s) == IF s \in Keys THEN MaskOf[s] ELSE s

MaskList(list) == [i \in DOMAIN list |-> Masked(list[i])]

\* A bug: any stored key with that mask will do.
MergeAnywhere(list, old) ==
    [i \in DOMAIN list |->
        LET same == {j \in DOMAIN old : list[i] = Masked(old[j])}
        IN  IF same # {} THEN old[CHOOSE j \in same : \A k \in same : j <= k] ELSE list[i]]

\* merge_masked_key_list: at each place the stored key, if that is its mask.
Merge(list, old) ==
    [i \in DOMAIN list |->
        IF i \in DOMAIN old /\ list[i] = Masked(old[i]) THEN old[i] ELSE list[i]]

\* preserve_masked_provider_keys, for the profiles that are in both.
Preserved(body, old) ==
    [p \in DOMAIN body |-> IF p \in DOMAIN old THEN Merge(body[p], old[p]) ELSE body[p]]

KeysInit ==
    /\ stored \in Initial
    /\ view = [t \in Tabs |-> Nothing] /\ meant = view
    /\ fresh = [t \in Tabs |-> FALSE] /\ moved = [t \in Tabs |-> FALSE]
    /\ puts = {}
    /\ saves = 0

Open(t) == view[t] # Nothing

\* GET /api/config, when the page is loaded and after profiles have changed; it
\* does not wait for the PUTs that are under way, whose copy is gone then.
\* loadAll only logs a failure: then the tab goes on with the copy it has.
Load(t) ==
    /\ view' = [view EXCEPT ![t] = [p \in DOMAIN stored |-> MaskList(stored[p])]]
    /\ meant' = [meant EXCEPT ![t] = stored]
    /\ fresh' = [fresh EXCEPT ![t] = TRUE] /\ moved' = [moved EXCEPT ![t] = FALSE]
    /\ puts' = {[x EXCEPT !.from = IF @ = t THEN NoTab ELSE @] : x \in puts}
    /\ UNCHANGED <<stored, saves>>

(* ----------------------- what a user does, and saveConfig ---------------- *)

\* The copy is changed and sent; Change is the same change of what it means.
Send(t, newView, newMeant, inPlace) ==
    /\ saves < MaxSaves /\ saves' = saves + 1
    /\ view' = [view EXCEPT ![t] = newView]
    /\ meant' = [meant EXCEPT ![t] = newMeant]
    /\ moved' = [moved EXCEPT ![t] = @ \/ ~inPlace]
    /\ puts' = puts \cup {[from |-> t, id |-> saves', body |-> newView, meant |-> newMeant,
                           good |-> fresh[t] /\ ~moved'[t], phase |-> "sent", current |-> Nothing]}
    /\ UNCHANGED <<stored, fresh>>

\* Another setting is changed; the keys go along.
SaveOther(t) == Open(t) /\ Send(t, view[t], meant[t], TRUE)

AddKey(t) ==
    /\ Open(t)
    /\ \E p \in DOMAIN view[t], k \in Keys :
        /\ Len(view[t][p]) < MaxLength
        /\ Send(t, [view[t] EXCEPT ![p] = Append(@, k)],
                   [meant[t] EXCEPT ![p] = Append(@, k)], TRUE)

DeleteKey(t) ==
    /\ Open(t)
    /\ \E p \in DOMAIN view[t] : \E i \in DOMAIN view[t][p] :
        Send(t, [view[t] EXCEPT ![p] = RemoveAt(@, i)],
                [meant[t] EXCEPT ![p] = RemoveAt(@, i)], i = Len(view[t][p]))

\* The configuration c with profile p under the name q, and with a copy of it.
Renamed(c, p, q) == [x \in (DOMAIN c \ {p}) \cup {q} |-> IF x = q THEN c[p] ELSE c[x]]
Duplicated(c, p, q) == [x \in DOMAIN c \cup {q} |-> IF x = q THEN c[p] ELSE c[x]]

RenameProfile(t) ==
    /\ Open(t)
    /\ \E p \in DOMAIN view[t], q \in Profiles \ DOMAIN view[t] :
        Send(t, Renamed(view[t], p, q), Renamed(meant[t], p, q), FALSE)

DuplicateProfile(t) ==
    /\ Open(t)
    /\ \E p \in DOMAIN view[t], q \in Profiles \ DOMAIN view[t] :
        Send(t, Duplicated(view[t], p, q), Duplicated(meant[t], p, q), FALSE)

(* ------------------------------ update_config ---------------------------- *)

ReadCurrent(x) ==
    /\ x.phase = "sent"
    /\ puts' = (puts \ {x}) \cup {[x EXCEPT !.phase = "read", !.current = stored]}
    /\ UNCHANGED <<stored, view, history, saves>>

\* A PUT that has not read yet, when x is stored: x may have been sent before it
\* from the same copy, or it is good no more.
Follows(y, x) == y.from = x.from /\ x.from \in Tabs /\ x.id < y.id

\* The body, with the stored keys put back, becomes the configuration; from here
\* on the copies of other tabs are old.
Store(x) ==
    /\ x.phase = "read"
    /\ stored' = Preserved(x.body, x.current)
    /\ fresh' = [t \in Tabs |-> t = x.from /\ fresh[t]]
    /\ puts' = {[y EXCEPT !.good = @ /\ (y.phase = "read" \/ Follows(y, x))] : y \in puts \ {x}}
    /\ UNCHANGED <<view, meant, moved, saves>>

\* The body is refused or cannot be saved, or the client has gone; the copy
\* stays as it is.
Refuse(x) ==
    /\ puts' = puts \ {x}
    /\ UNCHANGED <<stored, view, history, saves>>

(* ---------------------- POST and DELETE /api/profiles -------------------- *)

\* They start from the running configuration (as one step here, see HotReload);
\* the page reloads its copy.
Change(t, new) ==
    /\ saves < MaxSaves /\ saves' = saves + 1
    /\ stored' = new
    /\ fresh' = [u \in Tabs |-> FALSE]
    /\ puts' = {[y EXCEPT !.good = @ /\ y.phase = "read"] : y \in puts}
    /\ UNCHANGED <<view, meant, moved>>

AddProfile(t) ==
    /\ Open(t)
    /\ \E p \in Profiles \ DOMAIN stored : Change(t, [x \in DOMAIN stored \cup {p} |->
                                                       IF x = p THEN <<>> ELSE stored[x]])

RemoveProfile(t) ==
    /\ Open(t) /\ Cardinality(DOMAIN stored) > 1
    /\ \E p \in DOMAIN stored : Change(t, [x \in DOMAIN stored \ {p} |-> stored[x]])

KeysNext ==
    \/ \E t \in Tabs :
        \/ Load(t)
        \/ SaveOther(t) \/ AddKey(t) \/ DeleteKey(t)
        \/ RenameProfile(t) \/ DuplicateProfile(t)
        \/ AddProfile(t) \/ RemoveProfile(t)
    \/ \E x \in puts : ReadCurrent(x) \/ Store(x) \/ Refuse(x)

KeysSpec == KeysInit /\ [][KeysNext]_keysVars

(* ------------------------------- properties ------------------------------ *)

\* What a user sees in a tab when it saves is what the proxy stores, as long as
\* nobody else changed anything, nothing in the tab was moved and no later save
\* of the tab came first: keys with the same mask are not mixed up, however many
\* saves of the tab are under way, also after one that was refused (api.rs 425-475).
StoredAsMeant ==
    [][\A x \in puts : Store(x) /\ x.good => stored' = x.meant]_keysVars

\* README: the panel serves to "manage your profiles, API keys, model mappings":
\* what it makes the proxy store are API keys and never the mask of one.
KeysNotMasks == \A p \in DOMAIN stored : Range(stored[p]) \subseteq Keys

\* A tab in which nothing was moved and which nobody interfered with never makes
\* the proxy store a mask: false when two of its saves cross (app.js 137-157, 712-754).
FreshTabsStoreKeys ==
    [][\A x \in puts : Store(x) /\ x.from \in Tabs /\ fresh[x.from] /\ ~moved[x.from]
          /\ KeysNotMasks => KeysNotMasks']_keysVars
=============================================================================
