--------------------------- MODULE MCCommandServer ---------------------------
(* Instances of CommandServer for TLC. *)
EXTENDS CommandServer

CONSTANTS s1, s2

OneSocket == {s1}
OneSocketOrder == <<s1>>
TwoSockets == {s1, s2}
TwoSocketsOrder == <<s1, s2>>

(* What makes calls nest and subscriber lists change. *)
ListRequests == {"name", "subscribe", "unsubscribe"}

(* What opens and closes the serial port. *)
PortRequests == {"open", "close", "status"}

AllRequests ==
  {"open", "close", "status", "name", "order", "unmapped", "subscribe",
   "unsubscribe", "get"}
==============================================================================
