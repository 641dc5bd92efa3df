---------------------------- MODULE MCModelRouter ----------------------------
(* Small model mappings for TLC: the other constants come from the .cfg.     *)
EXTENDS ModelRouter, TLC

\* Two providers behind the models a, b and c.
MCProvider == [a |-> "p", b |-> "q", c |-> "p"]

\* One tier only, with a choice of three.
MCSingle == [default |-> <<"a", "b", "c">>]

\* One tier with one fallback.
MCPair == [default |-> <<"a", "b">>]

\* The same models serve two tiers.
MCShared == [default |-> <<"a", "b">>, opus |-> <<"a", "b">>]

RequestSymmetry == Permutations(Requests)
=============================================================================
