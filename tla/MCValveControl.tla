--------------------------- MODULE MCValveControl ---------------------------
(* Instances of ValveControl for TLC. *)
EXTENDS ValveControl
=============================================================================
