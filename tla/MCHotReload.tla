---------------------------- MODULE MCHotReload -----------------------------
(* Two profile names for TLC: four configurations.                           *)
EXTENDS HotReload

MCDefault == [profiles |-> [n \in {"default"} |-> "keys"], active |-> "default"]

MCEnv == [profiles |-> [n \in {"work"} |-> "keys"], active |-> "work"]
MCBoth == [profiles |-> [n \in {"default", "work"} |-> "keys"],
           active |-> "work"]

MCInitial == {MCDefault, Absent}

MCEdits == {MCEnv, MCBoth}
=============================================================================
