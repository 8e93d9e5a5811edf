------------------------- MODULE SubscriptionServer -------------------------
(***************************************************************************)
(* The part of Server/src/server.cpp that keeps clients and subscriptions. *)
(***************************************************************************)
EXTENDS Wire, Integers

CONSTANTS
  CommandFields,  \* fields handleCommand fans out: status and name of the port
  MaxEntries      \* bound: entries of one socket in one list

ASSUME ServerBounds ==
  MaxEntries \in Nat /\ MaxEntries > 1 /\ CommandFields \subseteq Fields

VARIABLES
  serverUp,           \* the server process runs
  clients,            \* Server::clients
  subscriptionMap,    \* subscriptionMap[f][s]: entries of s in the list of f
  leftBehind          \* history: fields whose entry an InterruptedRead left

serverVars == <<serverUp, clients, subscriptionMap, leftBehind>>

NothingLeft == [s \in Sockets |-> {}]
NoSubscriptions == [f \in Fields |-> [s \in Sockets |-> 0]]

ServerTypeOK ==
  /\ serverUp \in BOOLEAN
  /\ clients \in SUBSET Sockets
  /\ subscriptionMap \in [Fields -> [Sockets -> 0..MaxEntries]]
  /\ leftBehind \in [Sockets -> SUBSET Fields]

ServerInit ==
  /\ serverUp = TRUE
  /\ clients = {}
  /\ subscriptionMap = NoSubscriptions
  /\ leftBehind = NothingLeft

(* Mutant of RemoveOne: an entry that is not there is removed. *)
RemoveOneUnchecked(entries, s) == [entries EXCEPT ![s] = @ - 1]

(* QList::removeOne removes the first entry, if there is one. *)
RemoveOne(entries, s) == [entries EXCEPT ![s] = IF @ = 0 THEN 0 ELSE @ - 1]

(* The end of receiveSubscribe: append, unless the list contains s. *)
Subscribed(entries, s) ==
  IF entries[s] > 0 THEN entries ELSE [entries EXCEPT ![s] = @ + 1]

IncomingConnection(s) ==
  /\ serverUp
  /\ s \in backlog
  /\ clients' = clients \cup {s}
  /\ backlog' = backlog \ {s}
  /\ UNCHANGED <<wire, toServer, serverUp, subscriptionMap, leftBehind>>

(* readyRead hands the oldest request about f to the request handler. *)
Reads(s, f, request) ==
  /\ s \in clients
  /\ toServer[s][f] # <<>>
  /\ Head(toServer[s][f]) = request
  /\ toServer' = [toServer EXCEPT ![s][f] = Tail(@)]
  /\ UNCHANGED <<wire, backlog, serverUp, clients>>

(* A read that ends in the middle of a request: neither part parses, and   *)
(* readyRead keeps nothing between two reads.                              *)
ReadsFragments(s, f) ==
  /\ \E request \in Requests : Reads(s, f, request)
  /\ UNCHANGED <<subscriptionMap, leftBehind>>

(* Mutant of ReceiveSubscribe: contains() is not asked. *)
ReceiveSubscribeAgain(s, f) ==
  /\ Reads(s, f, "subscribe")
  /\ subscriptionMap[f][s] < MaxEntries
  /\ subscriptionMap' = [subscriptionMap EXCEPT ![f][s] = @ + 1]
  /\ UNCHANGED leftBehind

ReceiveSubscribe(s, f) ==
  /\ Reads(s, f, "subscribe")
  /\ subscriptionMap' = [subscriptionMap EXCEPT ![f] = Subscribed(@, s)]
  /\ UNCHANGED leftBehind

ReceiveUnsubscribe(s, f) ==
  /\ Reads(s, f, "unsubscribe")
  /\ subscriptionMap' = [subscriptionMap EXCEPT ![f] = RemoveOne(@, s)]
  /\ leftBehind' = [leftBehind EXCEPT ![s] = @ \ {f}]

(* Mutant of ServerDisconnected: the subscriber lists are forgotten. *)
ServerDisconnectedKeepsLists(s) ==
  /\ s \in clients
  /\ wire[s] = "cut"
  /\ clients' = clients \ {s}
  /\ toServer' = [toServer EXCEPT ![s] = NoRequests]
  /\ leftBehind' = [leftBehind EXCEPT ![s] = {}]
  /\ UNCHANGED <<wire, backlog, serverUp, subscriptionMap>>

(* The slot disconnected(), called by the event loop; the socket object    *)
(* goes with deleteLater, and so does what was not read.                   *)
ServerDisconnected(s) ==
  /\ s \in clients
  /\ wire[s] = "cut"
  /\ clients' = clients \ {s}
  /\ subscriptionMap' = [f \in Fields |-> RemoveOne(subscriptionMap[f], s)]
  /\ leftBehind' = [leftBehind EXCEPT ![s] = {}]
  /\ toServer' = [toServer EXCEPT ![s] = NoRequests]
  /\ UNCHANGED <<wire, backlog, serverUp>>

(***************************************************************************)
(* readyRead of s handles a post of a command: its fan-out                 *)
(* (receivePost, handleCommand, updateSubscriptions) changes nothing here  *)
(* while the connection stands.  If it breaks, and s is itself subscribed  *)
(* to what the command fans out, disconnected() runs in the wait for s     *)
(* and readyRead then goes on with what it has read behind the post: some  *)
(* of the requests about each field, of which those in `rest' end with a   *)
(* subscription.  CommandServer has the calls one by one.                  *)
(***************************************************************************)
InterruptedRead(s) ==
  /\ s \in clients
  /\ wire[s] = "cut"
  /\ \E f \in CommandFields : subscriptionMap[f][s] > 0
  /\ \E rest \in SUBSET {f \in Fields : \E i \in DOMAIN toServer[s][f] :
                                          toServer[s][f][i] = "subscribe"} :
       /\ subscriptionMap' =
            [f \in Fields |->
               LET removed == RemoveOne(subscriptionMap[f], s) IN
               IF f \in rest THEN Subscribed(removed, s) ELSE removed]
       /\ leftBehind' = [leftBehind EXCEPT ![s] = rest]
  /\ clients' = clients \ {s}
  /\ toServer' = [toServer EXCEPT ![s] = NoRequests]
  /\ UNCHANGED <<wire, backlog, serverUp>>

(* The server process ends: its connections break, and what it had not     *)
(* read of them is lost.                                                   *)
ServerDies ==
  /\ serverUp
  /\ serverUp' = FALSE
  /\ clients' = {}
  /\ subscriptionMap' = NoSubscriptions
  /\ leftBehind' = NothingLeft
  /\ Cut(Sockets)
  /\ backlog' = {}
  /\ toServer' = [s \in Sockets |-> IF wire[s] = "dialing" THEN toServer[s]
                                   ELSE NoRequests]

(* receiveGet throws std::logic_error and nothing catches it. *)
ReceiveGet(s) ==
  /\ s \in clients
  /\ ServerDies

ServerRestarts ==
  /\ ~serverUp
  /\ serverUp' = TRUE
  /\ UNCHANGED <<wireVars, clients, subscriptionMap, leftBehind>>
=============================================================================
