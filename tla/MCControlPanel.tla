--------------------------- MODULE MCControlPanel ---------------------------
EXTENDS ControlPanel

(* No report of Icarus has AV_STATE: one command says all about a button. *)
PostsOfBuild == [Firehorn |-> 2, Icarus |-> 1]
=============================================================================
