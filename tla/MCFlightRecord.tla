---------------------------- MODULE MCFlightRecord ----------------------------
(* Instances of FlightRecord for TLC. *)
EXTENDS FlightRecord
==============================================================================
