--------------------------- MODULE ClientManager ---------------------------
(***************************************************************************)
(* commons/src/ClientManager.cpp: the client end of the subscription link. *)
(* Widgets register callbacks for a field; the manager asks the server for *)
(* the field once, and asks again for everything it knows after a timer    *)
(* driven reconnection.                                                    *)
(***************************************************************************)
EXTENDS Wire

CONSTANTS
  MaxCallbacks,   \* bound: callbacks per field and kind
  MaxUnread       \* bound: requests of one field the server has not read

ASSUME ClientBounds == MaxCallbacks \in Nat \ {0} /\ MaxUnread \in Nat \ {0}

VARIABLES
  alive,       \* alive[c]: the process that owns the manager runs
  sock,        \* sock[c]: its socket, NoSocket in UnconnectedState
  timer,       \* timer[c]: m_reconnectTimer is active
  known,       \* known[c]: keys of subscriptionsJson and subscriptionsStrings
  callbacks    \* callbacks[c][k]: number of callbacks stored under key k

clientVars == <<alive, sock, timer, known, callbacks>>

(* The two overloads of subscribe keep their callbacks in two maps. *)
Kinds == {"Json", "String"}
Keys == Kinds \X Fields

NoCallbacks == [k \in Keys |-> 0]

ClientTypeOK ==
  /\ alive \in [Clients -> BOOLEAN]
  /\ sock \in [Clients -> Sockets \cup {NoSocket}]
  /\ timer \in [Clients -> BOOLEAN]
  /\ known \in [Clients -> SUBSET Keys]
  /\ callbacks \in [Clients -> [Keys -> 0..MaxCallbacks]]

ClientInit ==
  /\ alive = [c \in Clients |-> FALSE]
  /\ sock = [c \in Clients |-> NoSocket]
  /\ timer = [c \in Clients |-> FALSE]
  /\ known = [c \in Clients |-> {}]
  /\ callbacks = [c \in Clients |-> NoCallbacks]

Unconnected(c) == sock[c] = NoSocket
Connecting(c) == ~Unconnected(c) /\ wire[sock[c]] = "dialing"
Connected(c) == ~Unconnected(c) /\ wire[sock[c]] # "dialing"

(* Some widget of c waits for updates of f. *)
Interested(c, f) == \E kind \in Kinds : callbacks[c][<<kind, f>>] > 0

(***************************************************************************)
(* sendSubscribeRequest and sendUnsubscribeRequest: an unconnected manager *)
(* drops the request and makes sure that the timer runs.                   *)
(***************************************************************************)
SendRequest(c, f, request) ==
  \/ /\ Unconnected(c)
     /\ timer' = [timer EXCEPT ![c] = TRUE]
     /\ UNCHANGED wireVars
  \/ /\ ~Unconnected(c)
     /\ Len(toServer[sock[c]][f]) < MaxUnread
     /\ Write(sock[c], f, request)
     /\ UNCHANGED timer

(* Only the first callback of a key asks the server.  operator[] enters    *)
(* the key before the request is sent, the callback is stored after.       *)
Subscribe(c, kind, f) ==
  LET key == <<kind, f>> IN
  /\ alive[c]
  /\ callbacks[c][key] < MaxCallbacks
  /\ IF callbacks[c][key] = 0 THEN SendRequest(c, f, "subscribe")
                              ELSE UNCHANGED <<timer, wireVars>>
  /\ known' = [known EXCEPT ![c] = @ \cup {key}]
  /\ callbacks' = [callbacks EXCEPT ![c][key] = @ + 1]
  /\ UNCHANGED <<alive, sock>>

(* Clears the callbacks of every widget, in both maps; the keys stay. *)
UnsubscribeAll(c, f) ==
  /\ alive[c]
  /\ known' = [known EXCEPT ![c] = @ \cup (Kinds \X {f})]
  /\ callbacks' = [callbacks EXCEPT ![c] =
                     [k \in Keys |-> IF k[2] = f THEN 0 ELSE @[k]]]
  /\ SendRequest(c, f, "unsubscribe")
  /\ UNCHANGED <<alive, sock>>

(* Mutant of Resubscriptions: one of the two maps is forgotten. *)
ResubscriptionsOfJson(c) ==
  [f \in Fields |-> IF timer[c] /\ <<"Json", f>> \in known[c]
                    THEN <<"subscribe">> ELSE <<>>]

(***************************************************************************)
(* The slot connected().  The constructor's own connection arrives while   *)
(* the timer is off and repeats nothing.                                   *)
(***************************************************************************)
Resubscriptions(c) ==
  [f \in Fields |->
     IF ~timer[c] THEN <<>>
     ELSE (IF <<"Json", f>> \in known[c] THEN <<"subscribe">> ELSE <<>>)
       \o (IF <<"String", f>> \in known[c] THEN <<"subscribe">> ELSE <<>>)]

OnConnected(c) ==
  /\ Connecting(c)
  /\ Establish(sock[c], Resubscriptions(c))
  /\ timer' = [timer EXCEPT ![c] = FALSE]
  /\ UNCHANGED <<alive, sock, known, callbacks>>

(* Mutant of OnDisconnected: nobody starts the timer. *)
OnDisconnectedNoTimer(c) ==
  /\ ~Unconnected(c)
  /\ wire[sock[c]] = "cut"
  /\ sock' = [sock EXCEPT ![c] = NoSocket]
  /\ UNCHANGED <<alive, timer, known, callbacks, wireVars>>

(* The slot disconnected(). *)
OnDisconnected(c) ==
  /\ ~Unconnected(c)
  /\ wire[sock[c]] = "cut"
  /\ sock' = [sock EXCEPT ![c] = NoSocket]
  /\ timer' = [timer EXCEPT ![c] = TRUE]
  /\ UNCHANGED <<alive, known, callbacks, wireVars>>

(* m_reconnectTimer times out. *)
ReconnectTick(c, s) ==
  /\ timer[c]
  /\ Unconnected(c)
  /\ Dial(s)
  /\ sock' = [sock EXCEPT ![c] = s]
  /\ UNCHANGED <<alive, timer, known, callbacks>>

(* An attempt fails: UnconnectedState again, and no disconnected signal;   *)
(* whatever was waiting in the write buffer is gone.                       *)
DialFails(c) ==
  /\ Connecting(c)
  /\ wire' = [wire EXCEPT ![sock[c]] = "idle"]
  /\ toServer' = [toServer EXCEPT ![sock[c]] = NoRequests]
  /\ sock' = [sock EXCEPT ![c] = NoSocket]
  /\ UNCHANGED <<backlog, alive, timer, known, callbacks>>

(* The constructor blocks in waitForConnected; both outcomes return with   *)
(* the timer off.                                                          *)
ConstructConnected(c, s) ==
  /\ ~alive[c]
  /\ alive' = [alive EXCEPT ![c] = TRUE]
  /\ sock' = [sock EXCEPT ![c] = s]
  /\ wire' = [wire EXCEPT ![s] = "open"]
  /\ backlog' = backlog \cup {s}
  /\ toServer' = [toServer EXCEPT ![s] = NoRequests]
  /\ UNCHANGED <<timer, known, callbacks>>

ConstructUnconnected(c) ==
  /\ ~alive[c]
  /\ alive' = [alive EXCEPT ![c] = TRUE]
  /\ UNCHANGED <<sock, timer, known, callbacks, wireVars>>

(* The process that owns the manager ends, and takes its state with it. *)
Exit(c) ==
  /\ alive[c]
  /\ alive' = [alive EXCEPT ![c] = FALSE]
  /\ sock' = [sock EXCEPT ![c] = NoSocket]
  /\ timer' = [timer EXCEPT ![c] = FALSE]
  /\ known' = [known EXCEPT ![c] = {}]
  /\ callbacks' = [callbacks EXCEPT ![c] = NoCallbacks]
  /\ IF Connecting(c)
     THEN wire' = [wire EXCEPT ![sock[c]] = "idle"]
     ELSE Cut({sock[c]})
  /\ UNCHANGED <<backlog, toServer>>
============================================================================
