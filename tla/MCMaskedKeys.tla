---------------------------- MODULE MCMaskedKeys -----------------------------
(* Small configurations for TLC: the other constants come from the .cfg.     *)
EXTENDS MaskedKeys, TLC

CONSTANTS a, b, k1, k2, k3, similar, stars

\* Two keys that look alike, and a short one.
MCMaskOf == (k1 :> similar) @@ (k2 :> similar) @@ (k3 :> stars)

\* One profile or two, with two keys that look alike or that do not.
MCInitial == {a :> <<k1, k2>>, (a :> <<k2, k3>>) @@ (b :> <<k1>>)}

TabSymmetry == Permutations(Tabs)
=============================================================================
