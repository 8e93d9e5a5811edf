----------------------------- MODULE MCHttpBridge -----------------------------
(* Instances of HttpBridge, with the other readers of the stream, for TLC. *)
EXTENDS HttpBridge
==============================================================================
