----------------------------- MODULE MCSSEStream -----------------------------
(* Small answers for TLC: the other constants come from the .cfg of a run.   *)
EXTENDS SSEStream

\* Two parallel calls: the input of one is held back, the name of the other grows.
\* No name turns into Task or ceases to be it.
MCNames == [task |-> {<<"Task">>}, read |-> {<<"Read">>, <<"Read", "File">>}]
MCTask == <<"Task">>
=============================================================================
