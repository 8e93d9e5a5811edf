-------------------------- MODULE SubscriptionLink --------------------------
(***************************************************************************)
(* Clients and server together: who gets the updates of a field, through   *)
(* connections that break, a server that dies and comes back, and clients  *)
(* that come and go.                                                       *)
(***************************************************************************)
EXTENDS ClientManager, SubscriptionServer

CONSTANTS
  MaxFaults,      \* bound: broken connections, deaths, failed attempts, exits
  Fragmenting     \* reads may end in the middle of a request

ASSUME LinkAssumption == MaxFaults \in Nat /\ Fragmenting \in BOOLEAN

VARIABLE faults   \* how many faults have happened

vars == <<wireVars, clientVars, serverVars, faults>>

TypeOK ==
  /\ WireTypeOK
  /\ ClientTypeOK
  /\ ServerTypeOK
  /\ faults \in 0..MaxFaults

Init ==
  /\ WireInit
  /\ ClientInit
  /\ ServerInit
  /\ faults = 0

(* Neither end holds s: the next connection may get it. *)
Free(s) == /\ \A c \in Clients : sock[c] # s
           /\ s \notin backlog \cup clients

Fault == faults < MaxFaults /\ faults' = faults + 1

-----------------------------------------------------------------------------

Widget(c) ==
  /\ \/ \E kind \in Kinds, f \in Fields : Subscribe(c, kind, f)
     \/ \E f \in Fields : UnsubscribeAll(c, f)
  /\ UNCHANGED <<serverVars, faults>>

Launch(c) ==
  /\ \/ \E s \in Sockets : Free(s) /\ serverUp /\ ConstructConnected(c, s)
     \/ ConstructUnconnected(c)
  /\ UNCHANGED <<serverVars, faults>>

Tick(c) ==
  /\ \E s \in Sockets : Free(s) /\ ReconnectTick(c, s)
  /\ UNCHANGED <<serverVars, faults>>

ClientConnected(c) ==
  /\ serverUp
  /\ OnConnected(c)
  /\ UNCHANGED <<serverVars, faults>>

ClientDisconnected(c) ==
  /\ OnDisconnected(c)
  /\ UNCHANGED <<serverVars, faults>>

(* Nothing listens: the attempt is refused. *)
Refused(c) ==
  /\ ~serverUp
  /\ DialFails(c)
  /\ UNCHANGED <<serverVars, faults>>

AttemptLost(c) == Fault /\ DialFails(c) /\ UNCHANGED serverVars

ClientExits(c) == Fault /\ Exit(c) /\ UNCHANGED serverVars

Accept(s) == IncomingConnection(s) /\ UNCHANGED <<clientVars, faults>>

HandleRequest(s, f) ==
  /\ ReceiveSubscribe(s, f) \/ ReceiveUnsubscribe(s, f)
  /\ UNCHANGED <<clientVars, faults>>

Fragment(s, f) ==
  /\ Fragmenting
  /\ Fault
  /\ ReadsFragments(s, f)
  /\ UNCHANGED clientVars

DropConnection(s) ==
  /\ ServerDisconnected(s)
  /\ UNCHANGED <<clientVars, faults>>

PostInterrupted(s) ==
  /\ InterruptedRead(s)
  /\ UNCHANGED <<clientVars, faults>>

ConnectionBreaks(s) ==
  /\ Fault
  /\ wire[s] = "open"
  /\ Cut({s})
  /\ UNCHANGED <<backlog, toServer, clientVars, serverVars>>

ServerCrash == Fault /\ ServerDies /\ UNCHANGED clientVars

GetRequest(s) == Fault /\ ReceiveGet(s) /\ UNCHANGED clientVars

Restart == ServerRestarts /\ UNCHANGED <<clientVars, faults>>

Next ==
  \/ \E c \in Clients :
       \/ Widget(c) \/ Launch(c) \/ Tick(c)
       \/ ClientConnected(c) \/ ClientDisconnected(c)
       \/ Refused(c) \/ AttemptLost(c) \/ ClientExits(c)
  \/ \E s \in Sockets :
       \/ Accept(s) \/ DropConnection(s) \/ ConnectionBreaks(s)
       \/ GetRequest(s) \/ PostInterrupted(s)
       \/ \E f \in Fields : HandleRequest(s, f) \/ Fragment(s, f)
  \/ ServerCrash
  \/ Restart

(* The event loops dispatch what is pending: sockets, signals, the timer.  *)
(* Nobody promises that a widget acts or that a dead server is restarted.  *)
Fairness ==
  /\ \A c \in Clients :
       /\ WF_vars(Tick(c))
       /\ WF_vars(ClientConnected(c))
       /\ WF_vars(ClientDisconnected(c))
       /\ WF_vars(Refused(c))
  /\ \A s \in Sockets :
       /\ WF_vars(Accept(s))
       /\ WF_vars(DropConnection(s))
       /\ \A f \in Fields : WF_vars(HandleRequest(s, f))

Spec == Init /\ [][Next]_vars
FairSpec == Spec /\ Fairness
-----------------------------------------------------------------------------

(* A subscriber list holds a socket that is gone, through which            *)
(* updateSubscriptions writes and whose address a later connection may     *)
(* get, only where a post interrupted by the disconnection of its own      *)
(* sender has left the entry: nothing else that happens to connections,    *)
(* also at an address used before, leaves one.                             *)
NoDanglingSubscriber ==
  \A f \in Fields, s \in Sockets :
    subscriptionMap[f][s] > 0 => s \in clients \/ f \in leftBehind[s]

(* Nobody is listed twice for a field: it would get every update twice,    *)
(* and removeOne in disconnected() would leave the second entry behind.    *)
NoDoubleSubscriber ==
  \A f \in Fields, s \in Sockets : subscriptionMap[f][s] <= 1

(* A client whose widgets wait for updates and that has no connection is   *)
(* trying to get one: the timer is never off in that state.                *)
ReconnectArmed ==
  \A c \in Clients, f \in Fields :
    Interested(c, f) /\ Unconnected(c) => timer[c]

(* What the server will think of f once it has read everything s sent. *)
WillBeSubscribed(s, f) ==
  LET queue == toServer[s][f] IN
  IF queue = <<>> THEN subscriptionMap[f][s] > 0
                  ELSE queue[Len(queue)] = "subscribe"

(* While a connection stands, the requests on their way and the server's   *)
(* list together never lose a field some widget waits for, whatever mix    *)
(* of subscriptions, unsubscribeAll and reconnections led there.           *)
InterestPreserved ==
  \A c \in Clients, f \in Fields :
    /\ Interested(c, f)
    /\ Connected(c)
    /\ wire[sock[c]] = "open"
    => WillBeSubscribed(sock[c], f)

(* The server serves a connection a field its client has never named only  *)
(* through an entry an earlier connection has left behind at its address,  *)
(* in an interrupted post.  (A field the client has given up with          *)
(* unsubscribeAll counts as named: ClientManager keeps its keys.)          *)
OnlyNamedFields ==
  \A c \in Clients, f \in Fields :
    ~Unconnected(c) /\ subscriptionMap[f][sock[c]] > 0
      => \/ \E kind \in Kinds : <<kind, f>> \in known[c]
         \/ f \in leftBehind[sock[c]]

(* Once the server stays up, a field some widget keeps waiting for ends up *)
(* subscribed for good, after any number of reconnections.                 *)
Served(c, f) == ~Unconnected(c) /\ subscriptionMap[f][sock[c]] > 0

InterestServed ==
  \A c \in Clients, f \in Fields :
    <>[]serverUp /\ <>[]Interested(c, f) => <>[]Served(c, f)
=============================================================================
