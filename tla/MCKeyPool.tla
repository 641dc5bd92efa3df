----------------------------- MODULE MCKeyPool ------------------------------
(* Small pools for TLC: the constants come from the .cfg of each run.       *)
EXTENDS KeyPool, TLC

CallerSymmetry == Permutations(Callers)
=============================================================================
