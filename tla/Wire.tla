------------------------------- MODULE Wire -------------------------------
(***************************************************************************)
(* The TCP connections between the GUI clients and the ground station      *)
(* server.  External code (QTcpSocket, QTcpServer and the kernel),         *)
(* modelled from how commons/src/ClientManager.cpp and Server/src/         *)
(* server.cpp use it.                                                      *)
(*                                                                         *)
(* A member of Sockets is one connection together with the QTcpSocket      *)
(* object the server allocates for it: the server keys its subscriber      *)
(* lists by that address, and an address comes back once its object is     *)
(* deleted.  So a socket is used again as soon as neither end holds it.    *)
(*                                                                         *)
(* Requests about different fields touch different lists of the server     *)
(* and commute; the stream keeps the order of the requests of one field.   *)
(***************************************************************************)
EXTENDS Naturals, Sequences

CONSTANTS
  Clients,    \* ClientManager instances
  Sockets,    \* connections, reused when both ends let go
  Fields,     \* members of GUI_FIELD a client may subscribe to
  NoSocket    \* a client that is in UnconnectedState

ASSUME NoSocketAssumption == NoSocket \notin Sockets

VARIABLES
  wire,       \* wire[s]: "idle", "dialing", "open", or "cut"
  backlog,    \* connections the kernel has completed, not yet accepted
  toServer    \* toServer[s][f]: the requests on their way, oldest first

wireVars == <<wire, backlog, toServer>>

Requests == {"subscribe", "unsubscribe"}

NoRequests == [f \in Fields |-> <<>>]

WireTypeOK ==
  /\ wire \in [Sockets -> {"idle", "dialing", "open", "cut"}]
  /\ backlog \in SUBSET Sockets
  /\ toServer \in [Sockets -> [Fields -> Seq(Requests)]]

WireInit ==
  /\ wire = [s \in Sockets |-> "idle"]
  /\ backlog = {}
  /\ toServer = [s \in Sockets |-> NoRequests]

(* QAbstractSocket::connectToHost: a fresh connection attempt on s. *)
Dial(s) ==
  /\ wire' = [wire EXCEPT ![s] = "dialing"]
  /\ toServer' = [toServer EXCEPT ![s] = NoRequests]
  /\ UNCHANGED backlog

(* The kernel completes the handshake; the server accepts later.  more[f]  *)
(* is what the client's connected() slot writes at once.                   *)
Establish(s, more) ==
  /\ wire' = [wire EXCEPT ![s] = "open"]
  /\ backlog' = backlog \cup {s}
  /\ toServer' = [toServer EXCEPT ![s] = [f \in Fields |-> @[f] \o more[f]]]

(* What is written after the connection broke never arrives.  What is      *)
(* written while it is being set up waits in the socket's write buffer.    *)
Write(s, f, request) ==
  /\ toServer' = IF wire[s] = "cut" THEN toServer
                 ELSE [toServer EXCEPT ![s][f] = Append(@, request)]
  /\ UNCHANGED <<wire, backlog>>

(* The connections in S break; bytes already sent may still be read. *)
Cut(S) ==
  wire' = [s \in Sockets |-> IF s \in S /\ wire[s] = "open" THEN "cut"
                             ELSE wire[s]]
===========================================================================
