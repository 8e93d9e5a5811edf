------------------------ MODULE SubscriptionLink_proof ------------------------
(***************************************************************************)
(* Proofs about SubscriptionLink, for any number of clients, connections   *)
(* and fields, and any bounds.                                             *)
(***************************************************************************)
EXTENDS SubscriptionLink, TLAPS

(* Two clients never hold the same connection. *)
OwnSockets ==
  \A c, d \in Clients : c # d /\ ~Unconnected(c) => sock[c] # sock[d]

(* A process that does not run has no callbacks. *)
NoGhosts == \A c \in Clients, k \in Keys : callbacks[c][k] > 0 => alive[c]

(* Only the timer dials, and it stays on until the attempt succeeds. *)
ConnectingArmed == \A c \in Clients : Connecting(c) => timer[c]

(* Callbacks are found under a key. *)
CallbacksKeyed ==
  \A c \in Clients, k \in Keys : callbacks[c][k] > 0 => k \in known[c]

(* Everything a connection carries or has subscribed, and no other         *)
(* connection has left behind, was named by its client.                    *)
Named(c, f) == \E kind \in Kinds : <<kind, f>> \in known[c]

TrafficNamed ==
  \A c \in Clients, f \in Fields :
    /\ ~Unconnected(c)
    /\ \/ toServer[sock[c]][f] # <<>>
       \/ subscriptionMap[f][sock[c]] > 0 /\ f \notin leftBehind[sock[c]]
    => Named(c, f)

IInv ==
  /\ TypeOK
  /\ OwnSockets
  /\ NoGhosts
  /\ ConnectingArmed
  /\ CallbacksKeyed
  /\ NoDanglingSubscriber
  /\ NoDoubleSubscriber
  /\ ReconnectArmed
  /\ TrafficNamed
-------------------------------------------------------------------------------

LEMMA InitIInv == Init => IInv
<1> SUFFICES ASSUME Init PROVE IInv
  OBVIOUS
<1> USE DEF Init, WireInit, ClientInit, ServerInit
<1>1. \A c \in Clients : Unconnected(c)
  BY DEF Unconnected
<1>2. \A c \in Clients, k \in Keys : callbacks[c][k] = 0
  BY DEF NoCallbacks
<1>3. \A f \in Fields, s \in Sockets : subscriptionMap[f][s] = 0
  BY DEF NoSubscriptions
<1>4. WireTypeOK
  BY DEF WireTypeOK, NoRequests
<1>5. ClientTypeOK
  BY ClientBounds DEF ClientTypeOK, NoCallbacks
<1>6. ServerTypeOK /\ faults \in 0..MaxFaults
  BY ServerBounds, LinkAssumption DEF ServerTypeOK, NoSubscriptions, NothingLeft
<1>7. ReconnectArmed
  BY <1>2 DEF ReconnectArmed, Interested, Keys, Kinds
<1> QED BY <1>1, <1>2, <1>3, <1>4, <1>5, <1>6, <1>7
        DEF IInv, TypeOK, OwnSockets, NoGhosts, Connecting, ConnectingArmed,
            CallbacksKeyed, NoDanglingSubscriber, NoDoubleSubscriber,
            TrafficNamed
-------------------------------------------------------------------------------

(* The actions, by what they do to each part of the state. *)

LEMMA WriteType ==
  ASSUME WireTypeOK, NEW s \in Sockets, NEW f \in Fields,
         NEW r \in Requests, Write(s, f, r)
  PROVE  WireTypeOK'
<1>1. CASE wire[s] = "cut"
  BY <1>1 DEF WireTypeOK, Write
<1>2. CASE wire[s] # "cut"
  <2>1. Append(toServer[s][f], r) \in Seq(Requests)
    BY DEF WireTypeOK
  <2>2. toServer' = [toServer EXCEPT ![s][f] = Append(@, r)]
    BY <1>2 DEF Write
  <2>3. toServer' \in [Sockets -> [Fields -> Seq(Requests)]]
    BY <2>1, <2>2 DEF WireTypeOK
  <2> QED BY <2>3 DEF WireTypeOK, Write
<1> QED BY <1>1, <1>2

LEMMA WriteEffect ==
  ASSUME WireTypeOK, NEW s \in Sockets, NEW f \in Fields,
         NEW r \in Requests, Write(s, f, r)
  PROVE  /\ UNCHANGED wire
         /\ toServer'[s][f] = IF wire[s] = "cut" THEN toServer[s][f]
                              ELSE Append(toServer[s][f], r)
         /\ \A t \in Sockets, g \in Fields :
              t # s \/ g # f => toServer'[t][g] = toServer[t][g]
<1>1. CASE wire[s] = "cut"
  BY <1>1 DEF Write
<1>2. CASE wire[s] # "cut"
  <2>1. toServer' = [toServer EXCEPT ![s][f] = Append(@, r)]
    BY <1>2 DEF Write
  <2>2. toServer'[s] = [toServer[s] EXCEPT ![f] = Append(@, r)]
    BY <2>1 DEF WireTypeOK
  <2>3. \A t \in Sockets : t # s => toServer'[t] = toServer[t]
    BY <2>1 DEF WireTypeOK
  <2>4. toServer[s] \in [Fields -> Seq(Requests)]
    BY DEF WireTypeOK
  <2>5. /\ toServer'[s][f] = Append(toServer[s][f], r)
        /\ \A g \in Fields : g # f => toServer'[s][g] = toServer[s][g]
    BY <2>2, <2>4
  <2> QED BY <1>2, <2>3, <2>5 DEF Write
<1> QED BY <1>1, <1>2

LEMMA SendRequestType ==
  ASSUME WireTypeOK, ClientTypeOK, NEW c \in Clients, NEW f \in Fields,
         NEW r \in Requests, SendRequest(c, f, r)
  PROVE  WireTypeOK' /\ timer' \in [Clients -> BOOLEAN]
<1>1. CASE Unconnected(c)
  BY <1>1 DEF SendRequest, WireTypeOK, ClientTypeOK, wireVars
<1>2. CASE ~Unconnected(c)
  <2>1. sock[c] \in Sockets
    BY <1>2 DEF Unconnected, ClientTypeOK
  <2> QED BY <1>2, <2>1, WriteType DEF SendRequest, ClientTypeOK
<1> QED BY <1>1, <1>2

LEMMA WidgetType ==
  ASSUME TypeOK, NEW c \in Clients, Widget(c)
  PROVE  TypeOK'
<1> USE DEF TypeOK
<1>0. ServerTypeOK' /\ (faults \in 0..MaxFaults)'
  BY DEF Widget, serverVars, ServerTypeOK
<1>1. ASSUME NEW kind \in Kinds, NEW f \in Fields, Subscribe(c, kind, f)
      PROVE WireTypeOK' /\ ClientTypeOK'
  <2>1. <<kind, f>> \in Keys /\ "subscribe" \in Requests
    BY DEF Keys, Requests
  <2>2. WireTypeOK' /\ timer' \in [Clients -> BOOLEAN]
    <3>1. CASE SendRequest(c, f, "subscribe")
      BY <2>1, <3>1, SendRequestType
    <3>2. CASE UNCHANGED <<timer, wireVars>>
      BY <3>2 DEF wireVars, WireTypeOK, ClientTypeOK
    <3> QED BY <1>1, <3>1, <3>2 DEF Subscribe
  <2>3. callbacks' \in [Clients -> [Keys -> 0..MaxCallbacks]]
    BY <1>1, <2>1, ClientBounds DEF Subscribe, ClientTypeOK
  <2>4. known' \in [Clients -> SUBSET Keys]
    BY <1>1, <2>1 DEF Subscribe, ClientTypeOK
  <2> QED BY <1>1, <2>2, <2>3, <2>4 DEF Subscribe, ClientTypeOK
<1>2. ASSUME NEW f \in Fields, UnsubscribeAll(c, f)
      PROVE WireTypeOK' /\ ClientTypeOK'
  <2>1. Kinds \X {f} \subseteq Keys /\ "unsubscribe" \in Requests
    BY DEF Keys, Requests
  <2>2. WireTypeOK' /\ timer' \in [Clients -> BOOLEAN]
    BY <1>2, <2>1, SendRequestType DEF UnsubscribeAll
  <2>3. callbacks' \in [Clients -> [Keys -> 0..MaxCallbacks]]
    BY <1>2, ClientBounds DEF UnsubscribeAll, ClientTypeOK
  <2>4. known' \in [Clients -> SUBSET Keys]
    BY <1>2, <2>1 DEF UnsubscribeAll, ClientTypeOK
  <2> QED BY <1>2, <2>2, <2>3, <2>4 DEF UnsubscribeAll, ClientTypeOK
<1> QED BY <1>0, <1>1, <1>2 DEF Widget

(* What connected() repeats for f: only subscriptions, and some if and     *)
(* only if the timer runs and the client has named f.                      *)
LEMMA ResubscriptionsOf ==
  ASSUME NEW c \in Clients, NEW f \in Fields
  PROVE  LET again == Resubscriptions(c)[f] IN
         /\ again \in Seq({"subscribe"})
         /\ again # <<>> <=> timer[c] /\ Named(c, f)
<1> DEFINE of(kind) == IF <<kind, f>> \in known[c] THEN <<"subscribe">> ELSE <<>>
           again == Resubscriptions(c)[f]
<1>1. again = IF ~timer[c] THEN <<>> ELSE of("Json") \o of("String")
  BY DEF Resubscriptions
<1>2. /\ of("Json") \in Seq({"subscribe"}) /\ of("String") \in Seq({"subscribe"})
      /\ of("Json") # <<>> <=> <<"Json", f>> \in known[c]
      /\ of("String") # <<>> <=> <<"String", f>> \in known[c]
  OBVIOUS
<1>3. Named(c, f) <=> <<"Json", f>> \in known[c] \/ <<"String", f>> \in known[c]
  BY DEF Named, Kinds
<1> HIDE DEF of
<1>4. /\ of("Json") \o of("String") \in Seq({"subscribe"})
      /\ of("Json") \o of("String") # <<>>
           <=> of("Json") # <<>> \/ of("String") # <<>>
  BY <1>2
<1> QED BY <1>1, <1>2, <1>3, <1>4

(* Connections made, broken and given up by a client. *)
LEMMA ClientStepType ==
  ASSUME TypeOK, NEW c \in Clients,
         \/ Launch(c) \/ Tick(c) \/ ClientConnected(c)
         \/ ClientDisconnected(c) \/ Refused(c) \/ AttemptLost(c)
         \/ ClientExits(c)
  PROVE  TypeOK'
<1> USE DEF TypeOK
<1>0. NoRequests \in [Fields -> Seq(Requests)]
  BY DEF NoRequests
<1>1. ServerTypeOK' /\ (faults \in 0..MaxFaults)'
  BY LinkAssumption
     DEF Launch, Tick, ClientConnected, ClientDisconnected, Refused,
         AttemptLost, ClientExits, Fault, serverVars, ServerTypeOK
<1>2. CASE Launch(c)
  <2>1. ASSUME NEW s \in Sockets, ConstructConnected(c, s)
        PROVE WireTypeOK' /\ ClientTypeOK'
    <3>1. WireTypeOK'
      BY <1>0, <2>1 DEF ConstructConnected, WireTypeOK
    <3>2. ClientTypeOK'
      BY <2>1 DEF ConstructConnected, ClientTypeOK
    <3> QED BY <3>1, <3>2
  <2>2. CASE ConstructUnconnected(c)
    BY <1>1, <2>2 DEF ConstructUnconnected, wireVars, WireTypeOK, ClientTypeOK
  <2> QED BY <1>1, <1>2, <2>1, <2>2 DEF Launch
<1>3. CASE Tick(c)
  BY <1>0, <1>1, <1>3 DEF Tick, ReconnectTick, Dial, WireTypeOK, ClientTypeOK
<1>4. CASE ClientConnected(c)
  <2>1. OnConnected(c) /\ sock[c] \in Sockets
    BY <1>4 DEF ClientConnected, OnConnected, Connecting, Unconnected, ClientTypeOK
  <2>2. \A f \in Fields : Resubscriptions(c)[f] \in Seq(Requests)
    <3>1. ASSUME NEW f \in Fields
          PROVE Resubscriptions(c)[f] \in Seq({"subscribe"})
      BY ResubscriptionsOf
    <3>2. Seq({"subscribe"}) \subseteq Seq(Requests)
      BY DEF Requests
    <3> QED BY <3>1, <3>2
  <2>3. \A f \in Fields :
          toServer[sock[c]][f] \o Resubscriptions(c)[f] \in Seq(Requests)
    BY <2>1, <2>2 DEF WireTypeOK
  <2>4. toServer' \in [Sockets -> [Fields -> Seq(Requests)]]
    BY <2>1, <2>3 DEF OnConnected, Establish, WireTypeOK
  <2> QED BY <1>1, <2>1, <2>4 DEF OnConnected, Establish, WireTypeOK, ClientTypeOK
<1>5. CASE ClientDisconnected(c)
  BY <1>1, <1>5
     DEF ClientDisconnected, OnDisconnected, wireVars, WireTypeOK, ClientTypeOK
<1>6. CASE Refused(c) \/ AttemptLost(c)
  <2>1. DialFails(c) /\ sock[c] \in Sockets
    BY <1>6 DEF Refused, AttemptLost, DialFails, Connecting, Unconnected, ClientTypeOK
  <2>2. WireTypeOK'
    BY <1>0, <2>1 DEF DialFails, WireTypeOK
  <2>3. ClientTypeOK'
    BY <2>1 DEF DialFails, ClientTypeOK
  <2> QED BY <1>1, <2>2, <2>3
<1>7. CASE ClientExits(c)
  <2>1. wire' \in [Sockets -> {"idle", "dialing", "open", "cut"}]
    BY <1>7 DEF ClientExits, Exit, Cut, WireTypeOK
  <2>2. NoCallbacks \in [Keys -> 0..MaxCallbacks]
    BY ClientBounds DEF NoCallbacks
  <2> QED BY <1>1, <1>7, <2>1, <2>2 DEF ClientExits, Exit, WireTypeOK, ClientTypeOK
<1> QED BY <1>2, <1>3, <1>4, <1>5, <1>6, <1>7
(* The steps of the server, and of the network under it. *)
ServerStep ==
  \/ \E s \in Sockets :
       \/ Accept(s) \/ DropConnection(s) \/ ConnectionBreaks(s)
       \/ GetRequest(s) \/ PostInterrupted(s)
       \/ \E f \in Fields : HandleRequest(s, f) \/ Fragment(s, f)
  \/ ServerCrash
  \/ Restart

LEMMA CutEffect ==
  ASSUME WireTypeOK, NEW S, Cut(S)
  PROVE  /\ wire' \in [Sockets -> {"idle", "dialing", "open", "cut"}]
         /\ \A s \in Sockets : wire'[s] = "dialing" <=> wire[s] = "dialing"
         /\ \A s \in Sockets : wire'[s] = "open" => wire[s] = "open" /\ s \notin S
BY DEF Cut, WireTypeOK

LEMMA ReadsEffect ==
  ASSUME WireTypeOK, NEW s \in Sockets, NEW f \in Fields, NEW r \in Requests,
         Reads(s, f, r)
  PROVE  /\ s \in clients
         /\ toServer[s][f] \in Seq(Requests) /\ toServer[s][f] # <<>>
         /\ Head(toServer[s][f]) = r
         /\ toServer' = [toServer EXCEPT ![s][f] = Tail(toServer[s][f])]
         /\ WireTypeOK'
         /\ UNCHANGED <<wire, backlog, serverUp, clients>>
<1>1. /\ toServer[s][f] \in Seq(Requests) /\ toServer[s][f] # <<>>
      /\ Tail(toServer[s][f]) \in Seq(Requests)
  BY DEF Reads, WireTypeOK
<1>2. toServer' = [toServer EXCEPT ![s][f] = Tail(toServer[s][f])]
  BY DEF Reads
<1>3. toServer' \in [Sockets -> [Fields -> Seq(Requests)]]
  BY <1>1, <1>2 DEF WireTypeOK
<1> QED BY <1>1, <1>2, <1>3 DEF Reads, WireTypeOK

LEMMA ServerDiesEffect ==
  ASSUME TypeOK, ServerDies
  PROVE  /\ WireTypeOK' /\ ServerTypeOK'
         /\ \A f \in Fields, s \in Sockets : subscriptionMap'[f][s] = 0
         /\ \A s \in Sockets : wire'[s] = "dialing" <=> wire[s] = "dialing"
         /\ \A s \in Sockets : wire'[s] # "open"
         /\ \A s \in Sockets, f \in Fields :
              toServer'[s][f] # <<>> => toServer[s][f] # <<>>
         /\ clients' = {}
         /\ \A s \in Sockets : leftBehind'[s] = {}
<1>1. Cut(Sockets) /\ WireTypeOK
  BY DEF ServerDies, TypeOK
<1>2. /\ wire' \in [Sockets -> {"idle", "dialing", "open", "cut"}]
      /\ \A s \in Sockets : wire'[s] = "dialing" <=> wire[s] = "dialing"
      /\ \A s \in Sockets : wire'[s] # "open"
  BY <1>1, CutEffect
<1>3. /\ toServer' \in [Sockets -> [Fields -> Seq(Requests)]]
      /\ \A s \in Sockets, f \in Fields :
           toServer'[s][f] # <<>> => toServer[s][f] # <<>>
  BY DEF ServerDies, TypeOK, WireTypeOK, NoRequests
<1>4. /\ ServerTypeOK'
      /\ \A f \in Fields, s \in Sockets : subscriptionMap'[f][s] = 0
      /\ \A s \in Sockets : leftBehind'[s] = {}
  <2>1. /\ subscriptionMap' = NoSubscriptions
        /\ leftBehind' = NothingLeft
        /\ serverUp' = FALSE /\ clients' = {}
    BY DEF ServerDies
  <2>2. NoSubscriptions \in [Fields -> [Sockets -> 0..MaxEntries]]
    BY ServerBounds DEF NoSubscriptions
  <2>3. \A f \in Fields, s \in Sockets : NoSubscriptions[f][s] = 0
    BY DEF NoSubscriptions
  <2>4. /\ NothingLeft \in [Sockets -> SUBSET Fields]
        /\ \A s \in Sockets : NothingLeft[s] = {}
    BY DEF NothingLeft
  <2> QED BY <2>1, <2>2, <2>3, <2>4 DEF ServerTypeOK
<1> QED BY <1>2, <1>3, <1>4 DEF ServerDies, WireTypeOK

(* A read its own disconnection interrupts. *)
LEMMA InterruptedReadEffect ==
  ASSUME WireTypeOK, ServerTypeOK, NEW s \in Sockets, InterruptedRead(s)
  PROVE  /\ WireTypeOK' /\ ServerTypeOK'
         /\ UNCHANGED <<wire, backlog, serverUp>>
         /\ wire[s] = "cut"
         /\ clients' = clients \ {s}
         /\ toServer' = [toServer EXCEPT ![s] = NoRequests]
         /\ \A f \in Fields, t \in Sockets : t # s =>
              /\ subscriptionMap'[f][t] = subscriptionMap[f][t]
              /\ leftBehind'[t] = leftBehind[t]
         /\ \A f \in Fields :
              /\ f \in leftBehind'[s] =>
                   toServer[s][f] # <<>> /\ subscriptionMap'[f][s] > 0
              /\ subscriptionMap[f][s] <= 1 =>
                   /\ subscriptionMap'[f][s] <= 1
                   /\ subscriptionMap'[f][s] > 0 => f \in leftBehind'[s]
              /\ subscriptionMap'[f][s] > 0 =>
                   f \in leftBehind'[s] \/ subscriptionMap[f][s] > 0
<1> DEFINE removed(f) == RemoveOne(subscriptionMap[f], s)
<1>1. /\ UNCHANGED <<wire, backlog, serverUp>>
      /\ wire[s] = "cut"
      /\ clients' = clients \ {s}
      /\ toServer' = [toServer EXCEPT ![s] = NoRequests]
  BY DEF InterruptedRead
<1>2. PICK rest \in SUBSET {f \in Fields : \E i \in DOMAIN toServer[s][f] :
                                           toServer[s][f][i] = "subscribe"} :
        /\ subscriptionMap' =
             [f \in Fields |-> IF f \in rest THEN Subscribed(removed(f), s)
                               ELSE removed(f)]
        /\ leftBehind' = [leftBehind EXCEPT ![s] = rest]
  BY DEF InterruptedRead
<1>3. \A f \in rest : f \in Fields /\ toServer[s][f] # <<>>
  <2> TAKE f \in rest
  <2>1. PICK i \in DOMAIN toServer[s][f] : toServer[s][f][i] = "subscribe"
    BY <1>2
  <2>2. f \in Fields
    BY <1>2
  <2>3. CASE toServer[s][f] = <<>>
    <3>1. DOMAIN toServer[s][f] = {}
      BY <2>3
    <3> QED BY <2>1, <3>1
  <2> QED BY <2>2, <2>3
<1>4. /\ leftBehind' \in [Sockets -> SUBSET Fields]
      /\ leftBehind'[s] = rest
      /\ \A t \in Sockets : t # s => leftBehind'[t] = leftBehind[t]
  BY <1>2, <1>3 DEF ServerTypeOK
<1>5. ASSUME NEW f \in Fields
      PROVE /\ subscriptionMap[f][s] \in 0..MaxEntries
            /\ removed(f) \in [Sockets -> 0..MaxEntries]
            /\ removed(f)[s] = IF subscriptionMap[f][s] = 0 THEN 0
                               ELSE subscriptionMap[f][s] - 1
            /\ \A t \in Sockets : t # s =>
                 removed(f)[t] = subscriptionMap[f][t]
  <2> DEFINE entries == subscriptionMap[f]
             less == IF entries[s] = 0 THEN 0 ELSE entries[s] - 1
  <2>1. entries \in [Sockets -> 0..MaxEntries]
    BY DEF ServerTypeOK
  <2> HIDE DEF entries
  <2>2. removed(f) = [entries EXCEPT ![s] = less]
    BY DEF entries, RemoveOne
  <2>3. less \in 0..MaxEntries
    BY <2>1, ServerBounds
  <2> HIDE DEF removed, less
  <2>4. /\ removed(f) \in [Sockets -> 0..MaxEntries]
        /\ removed(f)[s] = less
        /\ \A t \in Sockets : t # s => removed(f)[t] = entries[t]
    BY <2>1, <2>2, <2>3
  <2> QED BY <2>1, <2>4 DEF entries, less
<1> HIDE DEF removed
<1>6. ASSUME NEW f \in Fields
      PROVE LET now == subscriptionMap'[f] IN
            /\ now \in [Sockets -> 0..MaxEntries]
            /\ \A t \in Sockets : t # s => now[t] = subscriptionMap[f][t]
            /\ now[s] = IF f \in rest /\ removed(f)[s] = 0 THEN 1
                        ELSE removed(f)[s]
  <2>1. removed(f) \in [Sockets -> 0..MaxEntries]
    BY <1>5
  <2>2. CASE f \in rest
    <3>1. subscriptionMap'[f] = Subscribed(removed(f), s)
      BY <1>2, <2>2
    <3>2. CASE removed(f)[s] > 0
      BY <1>5, <2>1, <2>2, <3>1, <3>2 DEF Subscribed
    <3>3. CASE removed(f)[s] = 0
      <4>1. subscriptionMap'[f] = [removed(f) EXCEPT ![s] = 1]
        BY <2>1, <3>1, <3>3 DEF Subscribed
      <4> QED BY <1>5, <2>1, <2>2, <3>3, <4>1, ServerBounds
    <3> QED BY <2>1, <3>2, <3>3
  <2>3. CASE f \notin rest
    <3>1. subscriptionMap'[f] = removed(f)
      BY <1>2, <2>3
    <3> QED BY <1>5, <2>3, <3>1
  <2> QED BY <2>2, <2>3
<1>7. subscriptionMap' \in [Fields -> [Sockets -> 0..MaxEntries]]
  <2> DEFINE after(f) == IF f \in rest THEN Subscribed(removed(f), s)
                         ELSE removed(f)
  <2>1. subscriptionMap' = [f \in Fields |-> after(f)]
    BY <1>2
  <2>2. ASSUME NEW f \in Fields
        PROVE after(f) \in [Sockets -> 0..MaxEntries]
    <3>1. subscriptionMap'[f] = after(f)
      BY <2>1
    <3> QED BY <1>6, <3>1
  <2> HIDE DEF after
  <2> QED BY <2>1, <2>2
<1>8. WireTypeOK' /\ ServerTypeOK'
  <2>1. NoRequests \in [Fields -> Seq(Requests)]
    BY DEF NoRequests
  <2>2. toServer' \in [Sockets -> [Fields -> Seq(Requests)]]
    BY <1>1, <2>1 DEF WireTypeOK
  <2>3. WireTypeOK'
    BY <1>1, <2>2 DEF WireTypeOK
  <2>4. clients' \in SUBSET Sockets
    BY <1>1 DEF ServerTypeOK
  <2> QED BY <1>1, <1>4, <1>7, <2>3, <2>4 DEF ServerTypeOK
<1>9. \A f \in Fields, t \in Sockets : t # s =>
        /\ subscriptionMap'[f][t] = subscriptionMap[f][t]
        /\ leftBehind'[t] = leftBehind[t]
  BY <1>4, <1>6
<1>10. ASSUME NEW f \in Fields
       PROVE /\ f \in leftBehind'[s] =>
                  toServer[s][f] # <<>> /\ subscriptionMap'[f][s] > 0
             /\ subscriptionMap[f][s] <= 1 =>
                  /\ subscriptionMap'[f][s] <= 1
                  /\ subscriptionMap'[f][s] > 0 => f \in leftBehind'[s]
             /\ subscriptionMap'[f][s] > 0 =>
                  f \in leftBehind'[s] \/ subscriptionMap[f][s] > 0
  <2>1. /\ subscriptionMap[f][s] \in Nat
        /\ removed(f)[s] = IF subscriptionMap[f][s] = 0 THEN 0
                           ELSE subscriptionMap[f][s] - 1
    BY <1>5, ServerBounds
  <2>2. subscriptionMap'[f][s] = IF f \in rest /\ removed(f)[s] = 0 THEN 1
                                 ELSE removed(f)[s]
    BY <1>6
  <2> QED BY <1>3, <1>4, <2>1, <2>2
<1> QED BY <1>1, <1>8, <1>9, <1>10

LEMMA ServerStepType ==
  ASSUME TypeOK, ServerStep
  PROVE  TypeOK' /\ UNCHANGED clientVars
<1> USE DEF TypeOK
<1>0. UNCHANGED clientVars /\ (faults \in 0..MaxFaults)'
  <2>1. faults' = faults \/ Fault
    BY DEF ServerStep, Accept, DropConnection, ConnectionBreaks, GetRequest,
           HandleRequest, Fragment, ServerCrash, Restart, PostInterrupted
  <2>2. (faults \in 0..MaxFaults)'
    BY <2>1, LinkAssumption DEF Fault
  <2>3. UNCHANGED clientVars
    BY DEF ServerStep, Accept, DropConnection, ConnectionBreaks, GetRequest,
           HandleRequest, Fragment, ServerCrash, Restart, PostInterrupted, clientVars
  <2> QED BY <2>2, <2>3
<1>1. ClientTypeOK'
  BY <1>0 DEF clientVars, ClientTypeOK
<1>2. ASSUME NEW s \in Sockets, Accept(s) PROVE WireTypeOK' /\ ServerTypeOK'
  BY <1>2 DEF Accept, IncomingConnection, WireTypeOK, ServerTypeOK
<1>3. ASSUME NEW s \in Sockets, DropConnection(s)
      PROVE WireTypeOK' /\ ServerTypeOK'
  <2>1. WireTypeOK'
    BY <1>3 DEF DropConnection, ServerDisconnected, WireTypeOK, NoRequests
  <2>2. \A f \in Fields :
          RemoveOne(subscriptionMap[f], s) \in [Sockets -> 0..MaxEntries]
    BY ServerBounds DEF RemoveOne, ServerTypeOK
  <2>3. ServerTypeOK'
    BY <1>3, <2>2 DEF DropConnection, ServerDisconnected, ServerTypeOK
  <2> QED BY <2>1, <2>3
<1>4. ASSUME NEW s \in Sockets, ConnectionBreaks(s)
      PROVE WireTypeOK' /\ ServerTypeOK'
  BY <1>4, CutEffect DEF ConnectionBreaks, WireTypeOK, ServerTypeOK, serverVars
<1>5. ASSUME ServerDies PROVE WireTypeOK' /\ ServerTypeOK'
  BY <1>5, ServerDiesEffect
<1>6. ASSUME NEW s \in Sockets, NEW f \in Fields, HandleRequest(s, f)
      PROVE WireTypeOK' /\ ServerTypeOK'
  <2>1. CASE ReceiveSubscribe(s, f)
    <3>1. Reads(s, f, "subscribe") /\ "subscribe" \in Requests
      BY <2>1 DEF ReceiveSubscribe, Requests
    <3>2. WireTypeOK' /\ UNCHANGED <<serverUp, clients, leftBehind>>
      BY <2>1, <3>1, ReadsEffect DEF ReceiveSubscribe
    <3>3. subscriptionMap' \in [Fields -> [Sockets -> 0..MaxEntries]]
      <4>1. Subscribed(subscriptionMap[f], s) \in [Sockets -> 0..MaxEntries]
        BY ServerBounds DEF Subscribed, ServerTypeOK
      <4> QED BY <2>1, <4>1 DEF ReceiveSubscribe, ServerTypeOK
    <3> QED BY <3>2, <3>3 DEF ServerTypeOK
  <2>2. CASE ReceiveUnsubscribe(s, f)
    <3>1. Reads(s, f, "unsubscribe") /\ "unsubscribe" \in Requests
      BY <2>2 DEF ReceiveUnsubscribe, Requests
    <3>2. WireTypeOK' /\ UNCHANGED <<serverUp, clients>>
      BY <3>1, ReadsEffect
    <3>3. subscriptionMap' \in [Fields -> [Sockets -> 0..MaxEntries]]
      <4>1. RemoveOne(subscriptionMap[f], s) \in [Sockets -> 0..MaxEntries]
        BY ServerBounds DEF RemoveOne, ServerTypeOK
      <4> QED BY <2>2, <4>1 DEF ReceiveUnsubscribe, ServerTypeOK
    <3>4. leftBehind' \in [Sockets -> SUBSET Fields]
      BY <2>2 DEF ReceiveUnsubscribe, ServerTypeOK
    <3> QED BY <3>2, <3>3, <3>4 DEF ServerTypeOK
  <2> QED BY <1>6, <2>1, <2>2 DEF HandleRequest
<1>7. ASSUME NEW s \in Sockets, NEW f \in Fields, Fragment(s, f)
      PROVE WireTypeOK' /\ ServerTypeOK'
  <2>1. PICK r \in Requests : Reads(s, f, r)
    BY <1>7 DEF Fragment, ReadsFragments
  <2>2. WireTypeOK' /\ UNCHANGED serverVars
    BY <1>7, <2>1, ReadsEffect DEF Fragment, ReadsFragments, serverVars
  <2> QED BY <2>2 DEF ServerTypeOK, serverVars
<1>8. ASSUME Restart PROVE WireTypeOK' /\ ServerTypeOK'
  BY <1>8 DEF Restart, ServerRestarts, wireVars, WireTypeOK, ServerTypeOK
<1>9. ASSUME NEW s \in Sockets, PostInterrupted(s)
      PROVE WireTypeOK' /\ ServerTypeOK'
  BY <1>9, InterruptedReadEffect DEF PostInterrupted
<1>10. WireTypeOK' /\ ServerTypeOK'
  BY <1>2, <1>3, <1>4, <1>5, <1>6, <1>7, <1>8, <1>9
     DEF ServerStep, GetRequest, ReceiveGet, ServerCrash
<1> QED BY <1>0, <1>1, <1>10
(* No step of the server makes a connection or a request. *)
LEMMA ServerStepTraffic ==
  ASSUME TypeOK, ServerStep
  PROVE  \A s \in Sockets :
           /\ wire'[s] = "dialing" <=> wire[s] = "dialing"
           /\ wire'[s] = "open" => wire[s] = "open"
           /\ \A f \in Fields :
                /\ toServer'[s][f] # <<>> => toServer[s][f] # <<>>
                /\ subscriptionMap'[f][s] > 0 =>
                     subscriptionMap[f][s] > 0 \/ toServer[s][f] # <<>>
<1> DEFINE Effect ==
      \A s \in Sockets :
        /\ wire'[s] = "dialing" <=> wire[s] = "dialing"
        /\ wire'[s] = "open" => wire[s] = "open"
        /\ \A f \in Fields :
             /\ toServer'[s][f] # <<>> => toServer[s][f] # <<>>
             /\ subscriptionMap'[f][s] > 0 =>
                  subscriptionMap[f][s] > 0 \/ toServer[s][f] # <<>>
<1>0. WireTypeOK /\ ServerTypeOK
  BY DEF TypeOK
<1>1. ASSUME NEW s \in Sockets, Accept(s) PROVE Effect
  BY <1>1 DEF Accept, IncomingConnection
<1>2. ASSUME NEW s \in Sockets, DropConnection(s) PROVE Effect
  <2>1. /\ wire' = wire
        /\ toServer' = [toServer EXCEPT ![s] = NoRequests]
        /\ subscriptionMap' = [f \in Fields |-> RemoveOne(subscriptionMap[f], s)]
    BY <1>2 DEF DropConnection, ServerDisconnected
  <2>2. \A t \in Sockets, f \in Fields : toServer'[t][f] # <<>> => toServer[t][f] # <<>>
    BY <1>0, <2>1 DEF WireTypeOK, NoRequests
  <2>3. \A t \in Sockets, f \in Fields :
          subscriptionMap'[f][t] > 0 => subscriptionMap[f][t] > 0
    BY <1>0, <2>1, ServerBounds DEF ServerTypeOK, RemoveOne
  <2> QED BY <2>1, <2>2, <2>3
<1>3. ASSUME NEW s \in Sockets, ConnectionBreaks(s) PROVE Effect
  <2>1. Cut({s}) /\ UNCHANGED <<toServer, subscriptionMap>>
    BY <1>3 DEF ConnectionBreaks, serverVars
  <2> QED BY <1>0, <2>1, CutEffect
<1>4. ASSUME ServerDies PROVE Effect
  BY <1>4, ServerDiesEffect
<1>5. ASSUME NEW s \in Sockets, NEW f \in Fields,
             HandleRequest(s, f) \/ Fragment(s, f)
      PROVE Effect
  <2>1. PICK r \in Requests : Reads(s, f, r)
    BY <1>5 DEF HandleRequest, Fragment, ReadsFragments, ReceiveSubscribe,
                ReceiveUnsubscribe, Requests
  <2>2. /\ toServer[s][f] # <<>>
        /\ toServer' = [toServer EXCEPT ![s][f] = Tail(toServer[s][f])]
        /\ wire' = wire
    BY <1>0, <2>1, ReadsEffect
  <2>3. \A t \in Sockets, g \in Fields : toServer'[t][g] # <<>> => toServer[t][g] # <<>>
    BY <1>0, <2>2 DEF WireTypeOK
  <2>4. \A t \in Sockets, g \in Fields :
          subscriptionMap'[g][t] > 0 =>
            subscriptionMap[g][t] > 0 \/ toServer[t][g] # <<>>
    <3>1. CASE UNCHANGED subscriptionMap
      BY <3>1
    <3>2. CASE subscriptionMap' = [subscriptionMap EXCEPT ![f] = Subscribed(@, s)]
      BY <1>0, <2>2, <3>2 DEF ServerTypeOK, Subscribed
    <3>3. CASE subscriptionMap' = [subscriptionMap EXCEPT ![f] = RemoveOne(@, s)]
      BY <1>0, <3>3, ServerBounds DEF ServerTypeOK, RemoveOne
    <3> QED BY <1>5, <3>1, <3>2, <3>3
            DEF HandleRequest, Fragment, ReadsFragments, ReceiveSubscribe,
                ReceiveUnsubscribe
  <2> QED BY <2>2, <2>3, <2>4
<1>6. ASSUME Restart PROVE Effect
  BY <1>6 DEF Restart, ServerRestarts, wireVars
<1>7. ASSUME NEW s \in Sockets, PostInterrupted(s) PROVE Effect
  <2>1. InterruptedRead(s)
    BY <1>7 DEF PostInterrupted
  <2>2. /\ UNCHANGED wire
        /\ toServer' = [toServer EXCEPT ![s] = NoRequests]
    BY <1>0, <2>1, InterruptedReadEffect
  <2>3. \A t \in Sockets, f \in Fields : toServer'[t][f] # <<>> => toServer[t][f] # <<>>
    BY <1>0, <2>2 DEF WireTypeOK, NoRequests
  <2>4. ASSUME NEW t \in Sockets, NEW f \in Fields, subscriptionMap'[f][t] > 0
        PROVE subscriptionMap[f][t] > 0 \/ toServer[t][f] # <<>>
    BY <1>0, <2>1, <2>4, InterruptedReadEffect
  <2> QED BY <2>2, <2>3, <2>4
<1>8. Effect
  BY <1>1, <1>2, <1>3, <1>4, <1>5, <1>6, <1>7
     DEF ServerStep, GetRequest, ReceiveGet, ServerCrash
<1> QED BY <1>8

(* The subscriber lists hold connected sockets, each once, but for what an *)
(* interrupted read leaves behind; an entry that is not left behind comes  *)
(* from a request of its connection.                                       *)
LEMMA ServerStepLists ==
  ASSUME TypeOK, NoDanglingSubscriber, NoDoubleSubscriber, ServerStep
  PROVE  /\ NoDanglingSubscriber' /\ NoDoubleSubscriber'
         /\ \A f \in Fields, s \in Sockets :
              subscriptionMap'[f][s] > 0 /\ f \notin leftBehind'[s] =>
                \/ subscriptionMap[f][s] > 0 /\ f \notin leftBehind[s]
                \/ toServer[s][f] # <<>>
<1> DEFINE Entry(f, s) ==
             /\ subscriptionMap'[f][s] > 0 =>
                  s \in clients' \/ f \in leftBehind'[s]
             /\ subscriptionMap'[f][s] <= 1
             /\ subscriptionMap'[f][s] > 0 /\ f \notin leftBehind'[s] =>
                  \/ subscriptionMap[f][s] > 0 /\ f \notin leftBehind[s]
                  \/ toServer[s][f] # <<>>
           Listed == \A f \in Fields, s \in Sockets : Entry(f, s)
<1>0. /\ WireTypeOK /\ ServerTypeOK
      /\ \A f \in Fields, s \in Sockets :
           /\ subscriptionMap[f][s] \in Nat
           /\ subscriptionMap[f][s] > 0 => s \in clients \/ f \in leftBehind[s]
           /\ subscriptionMap[f][s] <= 1
  BY ServerBounds DEF TypeOK, ServerTypeOK, NoDanglingSubscriber, NoDoubleSubscriber
<1>1. ASSUME NEW s \in Sockets, Accept(s) PROVE Listed
  BY <1>0, <1>1 DEF Accept, IncomingConnection
<1>2. ASSUME NEW s \in Sockets, DropConnection(s) PROVE Listed
  <2>1. /\ clients' = clients \ {s}
        /\ subscriptionMap' = [f \in Fields |-> RemoveOne(subscriptionMap[f], s)]
        /\ leftBehind' = [leftBehind EXCEPT ![s] = {}]
    BY <1>2 DEF DropConnection, ServerDisconnected
  <2>2. ASSUME NEW f \in Fields, NEW t \in Sockets
        PROVE /\ t # s => subscriptionMap'[f][t] = subscriptionMap[f][t]
              /\ subscriptionMap'[f][s] = 0
    <3>1. /\ subscriptionMap[f] \in [Sockets -> 0..MaxEntries]
          /\ subscriptionMap'[f] = RemoveOne(subscriptionMap[f], s)
      BY <1>0, <2>1 DEF ServerTypeOK
    <3> QED BY <1>0, <3>1, ServerBounds DEF RemoveOne
  <2>3. \A t \in Sockets : t # s => leftBehind'[t] = leftBehind[t]
    BY <1>0, <2>1 DEF ServerTypeOK
  <2> QED BY <1>0, <2>1, <2>2, <2>3
<1>3. ASSUME UNCHANGED <<clients, subscriptionMap, leftBehind>> PROVE Listed
  BY <1>0, <1>3
<1>4. ASSUME ServerDies PROVE Listed
  BY <1>4, ServerDiesEffect DEF TypeOK
<1>5. ASSUME NEW s \in Sockets, NEW f \in Fields, HandleRequest(s, f) PROVE Listed
  <2>1. PICK r \in Requests : Reads(s, f, r)
    BY <1>5 DEF HandleRequest, ReceiveSubscribe, ReceiveUnsubscribe, Requests
  <2>2. s \in clients /\ clients' = clients /\ toServer[s][f] # <<>>
    BY <1>0, <2>1, ReadsEffect
  <2>3. CASE ReceiveSubscribe(s, f)
    <3>1. /\ UNCHANGED leftBehind
          /\ subscriptionMap' = [subscriptionMap EXCEPT ![f] = Subscribed(@, s)]
      BY <2>3 DEF ReceiveSubscribe
    <3>2. ASSUME NEW g \in Fields, NEW t \in Sockets, g # f \/ t # s
          PROVE subscriptionMap'[g][t] = subscriptionMap[g][t]
      BY <1>0, <3>1, <3>2 DEF Subscribed, ServerTypeOK
    <3>3. subscriptionMap'[f][s] <= 1
      BY <1>0, <3>1 DEF Subscribed, ServerTypeOK
    <3> QED BY <1>0, <2>2, <3>1, <3>2, <3>3
  <2>4. CASE ReceiveUnsubscribe(s, f)
    <3>1. /\ leftBehind' = [leftBehind EXCEPT ![s] = @ \ {f}]
          /\ subscriptionMap' = [subscriptionMap EXCEPT ![f] = RemoveOne(@, s)]
          /\ subscriptionMap[f] \in [Sockets -> 0..MaxEntries]
      BY <1>0, <2>4 DEF ReceiveUnsubscribe, ServerTypeOK
    <3>2. ASSUME NEW g \in Fields, NEW t \in Sockets, g # f \/ t # s
          PROVE /\ subscriptionMap'[g][t] = subscriptionMap[g][t]
                /\ g \in leftBehind'[t] <=> g \in leftBehind[t]
      <4>1. subscriptionMap'[g][t] = subscriptionMap[g][t]
        BY <1>0, <3>1, <3>2, ServerBounds DEF RemoveOne, ServerTypeOK
      <4>2. g \in leftBehind'[t] <=> g \in leftBehind[t]
        BY <1>0, <3>1, <3>2 DEF ServerTypeOK
      <4> QED BY <4>1, <4>2
    <3>3. subscriptionMap'[f][s] = 0
      BY <1>0, <3>1, ServerBounds DEF RemoveOne, ServerTypeOK
    <3> QED BY <1>0, <2>2, <3>2, <3>3
  <2> QED BY <1>5, <2>3, <2>4 DEF HandleRequest
<1>6. ASSUME NEW s \in Sockets, NEW f \in Fields, Fragment(s, f) PROVE Listed
  BY <1>3, <1>6 DEF Fragment, ReadsFragments, Reads
<1>7. ASSUME NEW s \in Sockets, ConnectionBreaks(s) PROVE Listed
  BY <1>3, <1>7 DEF ConnectionBreaks, serverVars
<1>8. ASSUME Restart PROVE Listed
  BY <1>3, <1>8 DEF Restart, ServerRestarts
<1>9. ASSUME NEW s \in Sockets, PostInterrupted(s) PROVE Listed
  <2>1. InterruptedRead(s)
    BY <1>9 DEF PostInterrupted
  <2>2. clients' = clients \ {s}
    BY <1>0, <2>1, InterruptedReadEffect
  <2>3. ASSUME NEW f \in Fields, NEW t \in Sockets, t # s PROVE Entry(f, t)
    <3>1. /\ subscriptionMap'[f][t] = subscriptionMap[f][t]
          /\ leftBehind'[t] = leftBehind[t]
      BY <1>0, <2>1, <2>3, InterruptedReadEffect
    <3> QED BY <1>0, <2>2, <2>3, <3>1
  <2>4. ASSUME NEW f \in Fields PROVE Entry(f, s)
    <3>1. /\ subscriptionMap'[f][s] <= 1
          /\ subscriptionMap'[f][s] > 0 => f \in leftBehind'[s]
      BY <1>0, <2>1, InterruptedReadEffect
    <3> QED BY <3>1
  <2> QED BY <2>3, <2>4
<1>10. Listed
  BY <1>1, <1>2, <1>4, <1>5, <1>6, <1>7, <1>8, <1>9
     DEF ServerStep, GetRequest, ReceiveGet, ServerCrash
<1> QED BY <1>10 DEF NoDanglingSubscriber, NoDoubleSubscriber

LEMMA ServerStepKeeps ==
  ASSUME IInv, ServerStep
  PROVE  IInv'
<1>1. /\ TypeOK' /\ UNCHANGED <<alive, sock, timer, known, callbacks>>
      /\ NoDanglingSubscriber' /\ NoDoubleSubscriber'
  BY ServerStepType, ServerStepLists DEF IInv, clientVars
<1>2. \A s \in Sockets :
        /\ wire'[s] = "dialing" <=> wire[s] = "dialing"
        /\ \A f \in Fields :
             /\ toServer'[s][f] # <<>> => toServer[s][f] # <<>>
             /\ subscriptionMap'[f][s] > 0 /\ f \notin leftBehind'[s] =>
                  \/ subscriptionMap[f][s] > 0 /\ f \notin leftBehind[s]
                  \/ toServer[s][f] # <<>>
  BY ServerStepTraffic, ServerStepLists DEF IInv
<1>3. \A c \in Clients : ~Unconnected(c) => sock[c] \in Sockets
  BY DEF IInv, TypeOK, ClientTypeOK, Unconnected
<1>4. OwnSockets' /\ NoGhosts' /\ CallbacksKeyed' /\ ReconnectArmed'
  BY <1>1 DEF IInv, OwnSockets, NoGhosts, CallbacksKeyed, ReconnectArmed,
              Unconnected, Interested
<1>5. ConnectingArmed'
  BY <1>1, <1>2, <1>3 DEF IInv, ConnectingArmed, Connecting, Unconnected
<1>6. TrafficNamed'
  BY <1>1, <1>2, <1>3 DEF IInv, TrafficNamed, Named, Unconnected
<1> QED BY <1>1, <1>4, <1>5, <1>6 DEF IInv
-------------------------------------------------------------------------------

(* The steps of the clients. *)

LEMMA SocketOf ==
  ASSUME TypeOK, NEW c \in Clients, ~Unconnected(c)
  PROVE  sock[c] \in Sockets
BY DEF TypeOK, ClientTypeOK, Unconnected

LEMMA WidgetKeeps ==
  ASSUME IInv, NEW c \in Clients, Widget(c)
  PROVE  IInv'
<1>0. TypeOK /\ TypeOK' /\ UNCHANGED <<clients, subscriptionMap, leftBehind>>
  BY WidgetType DEF IInv, Widget, serverVars
<1>1. PICK f \in Fields, r \in Requests :
        /\ SendRequest(c, f, r) \/ UNCHANGED <<timer, wireVars>>
        /\ \E kind \in Kinds : <<kind, f>> \in known'[c]
        /\ alive[c] /\ UNCHANGED <<alive, sock>>
        /\ \A d \in Clients : d # c => known'[d] = known[d] /\ callbacks'[d] = callbacks[d]
        /\ known[c] \subseteq known'[c]
        /\ \A k \in Keys : callbacks'[c][k] > 0 => k \in known'[c]
        /\ \A g \in Fields : Interested(c, g)' =>
             Interested(c, g) \/ SendRequest(c, f, r)
  <2>0. /\ known \in [Clients -> SUBSET Keys]
        /\ callbacks \in [Clients -> [Keys -> 0..MaxCallbacks]]
        /\ \A k \in Keys : callbacks[c][k] > 0 => k \in known[c]
    BY DEF IInv, TypeOK, ClientTypeOK, CallbacksKeyed
  <2>1. ASSUME NEW kind \in Kinds, NEW f \in Fields, Subscribe(c, kind, f)
        PROVE /\ SendRequest(c, f, "subscribe") \/ UNCHANGED <<timer, wireVars>>
              /\ \E k \in Kinds : <<k, f>> \in known'[c]
              /\ alive[c] /\ UNCHANGED <<alive, sock>>
              /\ \A d \in Clients :
                   d # c => known'[d] = known[d] /\ callbacks'[d] = callbacks[d]
              /\ known[c] \subseteq known'[c]
              /\ \A k \in Keys : callbacks'[c][k] > 0 => k \in known'[c]
              /\ \A g \in Fields : Interested(c, g)' =>
                   Interested(c, g) \/ SendRequest(c, f, "subscribe")
    <3> DEFINE key == <<kind, f>>
    <3>1. /\ known' = [known EXCEPT ![c] = @ \cup {key}]
          /\ callbacks' = [callbacks EXCEPT ![c][key] = @ + 1]
          /\ key \in Keys
          /\ IF callbacks[c][key] = 0 THEN SendRequest(c, f, "subscribe")
                                      ELSE UNCHANGED <<timer, wireVars>>
          /\ alive[c] /\ UNCHANGED <<alive, sock>>
      BY <2>1 DEF Subscribe, Keys
    <3>2. \A k \in Keys : k # key => callbacks'[c][k] = callbacks[c][k]
      BY <2>0, <3>1
    <3>3. known'[c] = known[c] \cup {key}
      BY <2>0, <3>1
    <3>4. \A g \in Fields : Interested(c, g)' =>
            Interested(c, g) \/ SendRequest(c, f, "subscribe")
      <4> SUFFICES ASSUME NEW g \in Fields, NEW k \in Kinds,
                          callbacks'[c][<<k, g>>] > 0,
                          ~SendRequest(c, f, "subscribe")
                   PROVE Interested(c, g)
        BY DEF Interested
      <4>1. <<k, g>> \in Keys
        BY DEF Keys
      <4>2. CASE <<k, g>> = key
        <5>1. callbacks[c][key] # 0 /\ callbacks[c][key] \in Nat
          BY <2>0, <3>1
        <5> QED BY <4>2, <5>1 DEF Interested
      <4>3. CASE <<k, g>> # key
        BY <3>2, <4>1, <4>3 DEF Interested
      <4> QED BY <4>2, <4>3
    <3>5. \A k \in Keys : callbacks'[c][k] > 0 => k \in known'[c]
      BY <2>0, <3>2, <3>3
    <3>6. \A d \in Clients :
            d # c => known'[d] = known[d] /\ callbacks'[d] = callbacks[d]
      BY <2>0, <3>1
    <3> QED BY <3>1, <3>3, <3>4, <3>5, <3>6
  <2>2. ASSUME NEW f \in Fields, UnsubscribeAll(c, f)
        PROVE /\ SendRequest(c, f, "unsubscribe")
              /\ \E k \in Kinds : <<k, f>> \in known'[c]
              /\ alive[c] /\ UNCHANGED <<alive, sock>>
              /\ \A d \in Clients :
                   d # c => known'[d] = known[d] /\ callbacks'[d] = callbacks[d]
              /\ known[c] \subseteq known'[c]
              /\ \A k \in Keys : callbacks'[c][k] > 0 => k \in known'[c]
              /\ \A g \in Fields : Interested(c, g)' =>
                   Interested(c, g) \/ SendRequest(c, f, "unsubscribe")
    <3>1. known' = [known EXCEPT ![c] = @ \cup (Kinds \X {f})]
      BY <2>2 DEF UnsubscribeAll
    <3>2. known'[c] = known[c] \cup (Kinds \X {f})
      BY <2>0, <3>1
    <3>3. \E k \in Kinds : <<k, f>> \in known'[c]
      BY <3>2 DEF Kinds
    <3>4. \A k \in Keys : callbacks'[c][k] > 0 => k \in known'[c]
      BY <2>0, <2>2, <3>2 DEF UnsubscribeAll
    <3> QED BY <2>0, <2>2, <3>1, <3>2, <3>3, <3>4 DEF UnsubscribeAll
  <2>3. "subscribe" \in Requests /\ "unsubscribe" \in Requests
    BY DEF Requests
  <2> QED BY <2>1, <2>2, <2>3 DEF Widget
<1>2. \A s \in Sockets :
        /\ wire'[s] = wire[s]
        /\ \A g \in Fields :
             toServer'[s][g] # toServer[s][g] => s = sock[c] /\ g = f
  <2>1. CASE UNCHANGED wireVars
    BY <2>1 DEF wireVars
  <2>2. CASE ~Unconnected(c) /\ Write(sock[c], f, r)
    <3>1. sock[c] \in Sockets
      BY <1>0, <2>2, SocketOf
    <3> QED BY <1>0, <2>2, <3>1, WriteEffect DEF TypeOK
  <2>3. UNCHANGED wireVars \/ SendRequest(c, f, r)
    BY <1>1 DEF wireVars
  <2>4. UNCHANGED wireVars \/ (~Unconnected(c) /\ Write(sock[c], f, r))
    BY <2>3 DEF SendRequest
  <2> QED BY <2>1, <2>2, <2>4
<1>3. \A d \in Clients : /\ timer[d] => timer'[d]
                         /\ d = c /\ Unconnected(c) /\ SendRequest(c, f, r) => timer'[c]
  BY <1>0, <1>1 DEF SendRequest, TypeOK, ClientTypeOK
<1>4. OwnSockets' /\ NoGhosts' /\ NoDanglingSubscriber' /\ NoDoubleSubscriber'
  BY <1>0, <1>1 DEF IInv, OwnSockets, NoGhosts, NoDanglingSubscriber,
                    NoDoubleSubscriber, Unconnected
<1>5. ConnectingArmed'
  BY <1>0, <1>1, <1>2, <1>3, SocketOf
     DEF IInv, ConnectingArmed, Connecting, Unconnected
<1>6. CallbacksKeyed'
  BY <1>1 DEF IInv, CallbacksKeyed
<1>7. ReconnectArmed'
  <2> SUFFICES ASSUME NEW d \in Clients, NEW g \in Fields,
                      Interested(d, g)', Unconnected(d)'
               PROVE timer'[d]
    BY DEF ReconnectArmed
  <2>1. Unconnected(d)
    BY <1>1 DEF Unconnected
  <2>2. CASE Interested(d, g)
    BY <1>3, <2>1, <2>2 DEF IInv, ReconnectArmed
  <2>3. CASE ~Interested(d, g)
    <3>1. d = c
      BY <1>1, <2>3 DEF Interested
    <3> QED BY <1>1, <1>3, <2>1, <2>3, <3>1
  <2> QED BY <2>2, <2>3
<1>8. TrafficNamed'
  <2> SUFFICES ASSUME NEW d \in Clients, NEW g \in Fields, ~Unconnected(d)',
                      \/ toServer'[sock'[d]][g] # <<>>
                      \/ /\ subscriptionMap'[g][sock'[d]] > 0
                         /\ g \notin leftBehind'[sock'[d]]
               PROVE Named(d, g)'
    BY DEF TrafficNamed
  <2>1. ~Unconnected(d) /\ sock'[d] = sock[d] /\ sock[d] \in Sockets
    BY <1>0, <1>1, SocketOf DEF Unconnected
  <2>2. CASE Named(d, g)
    BY <1>1, <2>2 DEF Named
  <2>3. CASE ~Named(d, g)
    <3>1. /\ toServer[sock[d]][g] = <<>>
          /\ \/ ~(subscriptionMap[g][sock[d]] > 0)
             \/ g \in leftBehind[sock[d]]
      BY <2>1, <2>3 DEF IInv, TrafficNamed
    <3>2. sock[d] = sock[c] /\ g = f
      BY <1>0, <1>2, <2>1, <3>1
    <3>3. d = c
      BY <2>1, <3>2 DEF IInv, OwnSockets
    <3> QED BY <1>1, <3>2, <3>3 DEF Named
  <2> QED BY <2>2, <2>3
<1> QED BY <1>0, <1>4, <1>5, <1>6, <1>7, <1>8 DEF IInv
LEMMA LaunchKeeps ==
  ASSUME IInv, NEW c \in Clients, Launch(c)
  PROVE  IInv'
<1>0. TypeOK /\ TypeOK' /\ UNCHANGED <<clients, subscriptionMap, leftBehind, timer, known, callbacks>>
  BY ClientStepType
     DEF IInv, Launch, serverVars, ConstructConnected, ConstructUnconnected
<1>1. ~alive[c] /\ \A d \in Clients : alive[d] => alive'[d]
  BY <1>0 DEF Launch, ConstructConnected, ConstructUnconnected, TypeOK, ClientTypeOK
<1>2. \A f \in Fields : ~Interested(c, f)
  <2>1. \A k \in Keys : ~(callbacks[c][k] > 0)
    BY <1>1 DEF IInv, NoGhosts
  <2> QED BY <2>1 DEF Interested, Keys
<1>3. NoGhosts' /\ CallbacksKeyed' /\ NoDanglingSubscriber' /\ NoDoubleSubscriber'
  BY <1>0, <1>1 DEF IInv, NoGhosts, CallbacksKeyed, NoDanglingSubscriber,
                    NoDoubleSubscriber
<1>4. CASE ConstructUnconnected(c)
  <2>1. UNCHANGED <<sock, wire, toServer>>
    BY <1>4 DEF ConstructUnconnected, wireVars
  <2> QED BY <1>0, <1>3, <2>1
          DEF IInv, OwnSockets, ConnectingArmed, Connecting, ReconnectArmed,
              Interested, Unconnected, TrafficNamed, Named
<1>5. ASSUME NEW s \in Sockets, Free(s), ConstructConnected(c, s)
      PROVE IInv'
  <2>1. /\ sock' = [sock EXCEPT ![c] = s]
        /\ wire' = [wire EXCEPT ![s] = "open"]
        /\ toServer' = [toServer EXCEPT ![s] = NoRequests]
        /\ s # NoSocket
        /\ s \notin clients
        /\ \A d \in Clients : sock[d] # s
    BY <1>5, NoSocketAssumption DEF ConstructConnected, Free
  <2>2. sock'[c] = s /\ \A d \in Clients : d # c => sock'[d] = sock[d]
    BY <1>0, <2>1 DEF TypeOK, ClientTypeOK
  <2>3. OwnSockets'
    BY <2>1, <2>2 DEF IInv, OwnSockets, Unconnected
  <2>4. ConnectingArmed'
    <3> SUFFICES ASSUME NEW d \in Clients, Connecting(d)' PROVE timer'[d]
      BY DEF ConnectingArmed
    <3>1. d # c
      BY <1>0, <2>1, <2>2 DEF Connecting, TypeOK, WireTypeOK
    <3>2. Connecting(d)
      BY <1>0, <2>1, <2>2, <3>1
         DEF Connecting, Unconnected, TypeOK, WireTypeOK, ClientTypeOK
    <3> QED BY <1>0, <3>2 DEF IInv, ConnectingArmed
  <2>5. ReconnectArmed'
    BY <1>0, <1>2, <2>2 DEF IInv, ReconnectArmed, Interested, Unconnected
  <2>6. TrafficNamed'
    <3> SUFFICES ASSUME NEW d \in Clients, NEW f \in Fields, ~Unconnected(d)',
                        \/ toServer'[sock'[d]][f] # <<>>
                        \/ /\ subscriptionMap'[f][sock'[d]] > 0
                           /\ f \notin leftBehind'[sock'[d]]
                 PROVE Named(d, f)'
      BY DEF TrafficNamed
    <3>1. d # c
      BY <1>0, <2>1, <2>2 DEF IInv, NoDanglingSubscriber, TypeOK, WireTypeOK, NoRequests
    <3>2. ~Unconnected(d) /\ toServer'[sock[d]] = toServer[sock[d]] /\ sock'[d] = sock[d]
      BY <1>0, <2>1, <2>2, <3>1 DEF Unconnected, TypeOK, WireTypeOK, ClientTypeOK
    <3> QED BY <1>0, <3>2 DEF IInv, TrafficNamed, Named
  <2> QED BY <1>0, <1>3, <2>3, <2>4, <2>5, <2>6 DEF IInv
<1> QED BY <1>4, <1>5 DEF Launch

LEMMA TickKeeps ==
  ASSUME IInv, NEW c \in Clients, Tick(c)
  PROVE  IInv'
<1>0. /\ TypeOK /\ TypeOK'
      /\ UNCHANGED <<clients, subscriptionMap, leftBehind, alive, timer, known, callbacks>>
  BY ClientStepType DEF IInv, Tick, serverVars, ReconnectTick
<1>1. PICK s \in Sockets :
        /\ sock' = [sock EXCEPT ![c] = s]
        /\ wire' = [wire EXCEPT ![s] = "dialing"]
        /\ toServer' = [toServer EXCEPT ![s] = NoRequests]
        /\ timer[c]
        /\ s \notin clients
        /\ \A d \in Clients : sock[d] # s
  BY DEF Tick, ReconnectTick, Dial, Free
<1>2. /\ sock'[c] = s /\ s # NoSocket
      /\ \A d \in Clients : d # c => sock'[d] = sock[d]
  BY <1>0, <1>1, NoSocketAssumption DEF TypeOK, ClientTypeOK
<1>3. NoGhosts' /\ CallbacksKeyed' /\ NoDanglingSubscriber' /\ NoDoubleSubscriber'
  BY <1>0 DEF IInv, NoGhosts, CallbacksKeyed, NoDanglingSubscriber,
              NoDoubleSubscriber
<1>4. OwnSockets'
  BY <1>1, <1>2 DEF IInv, OwnSockets, Unconnected
<1>5. ConnectingArmed'
  <2> SUFFICES ASSUME NEW d \in Clients, d # c, Connecting(d)' PROVE timer'[d]
    BY <1>0, <1>1 DEF ConnectingArmed
  <2>1. Connecting(d)
    BY <1>0, <1>1, <1>2
       DEF Connecting, Unconnected, TypeOK, WireTypeOK, ClientTypeOK
  <2> QED BY <1>0, <2>1 DEF IInv, ConnectingArmed
<1>6. ReconnectArmed'
  BY <1>0, <1>2 DEF IInv, ReconnectArmed, Interested, Unconnected
<1>7. TrafficNamed'
  <2> SUFFICES ASSUME NEW d \in Clients, NEW f \in Fields, ~Unconnected(d)',
                      \/ toServer'[sock'[d]][f] # <<>>
                      \/ /\ subscriptionMap'[f][sock'[d]] > 0
                         /\ f \notin leftBehind'[sock'[d]]
               PROVE Named(d, f)'
    BY DEF TrafficNamed
  <2>1. d # c
    BY <1>0, <1>1, <1>2 DEF IInv, NoDanglingSubscriber, TypeOK, WireTypeOK, NoRequests
  <2>2. ~Unconnected(d) /\ toServer'[sock[d]] = toServer[sock[d]] /\ sock'[d] = sock[d]
    BY <1>0, <1>1, <1>2, <2>1 DEF Unconnected, TypeOK, WireTypeOK, ClientTypeOK
  <2> QED BY <1>0, <2>2 DEF IInv, TrafficNamed, Named
<1> QED BY <1>0, <1>3, <1>4, <1>5, <1>6, <1>7 DEF IInv

LEMMA ClientConnectedKeeps ==
  ASSUME IInv, NEW c \in Clients, ClientConnected(c)
  PROVE  IInv'
<1>0. /\ TypeOK /\ TypeOK' /\ Connecting(c) /\ sock[c] \in Sockets
      /\ UNCHANGED <<clients, subscriptionMap, leftBehind, alive, sock, known, callbacks>>
  BY ClientStepType, SocketOf
     DEF IInv, ClientConnected, OnConnected, serverVars, Connecting
<1>1. /\ wire' = [wire EXCEPT ![sock[c]] = "open"]
      /\ timer' = [timer EXCEPT ![c] = FALSE]
      /\ toServer' = [toServer EXCEPT ![sock[c]] =
                        [f \in Fields |-> @[f] \o Resubscriptions(c)[f]]]
  BY DEF ClientConnected, OnConnected, Establish
<1>2. OwnSockets' /\ NoGhosts' /\ CallbacksKeyed'
        /\ NoDanglingSubscriber' /\ NoDoubleSubscriber'
  BY <1>0 DEF IInv, OwnSockets, NoGhosts, CallbacksKeyed, NoDanglingSubscriber,
              NoDoubleSubscriber, Unconnected
<1>3. ConnectingArmed'
  <2> SUFFICES ASSUME NEW d \in Clients, Connecting(d)' PROVE timer'[d]
    BY DEF ConnectingArmed
  <2>1. d # c /\ Connecting(d)
    BY <1>0, <1>1 DEF Connecting, Unconnected, TypeOK, WireTypeOK, ClientTypeOK
  <2> QED BY <1>0, <1>1, <2>1 DEF IInv, ConnectingArmed, TypeOK, ClientTypeOK
<1>4. ReconnectArmed'
  <2> SUFFICES ASSUME NEW d \in Clients, NEW f \in Fields,
                      Interested(d, f), Unconnected(d)
               PROVE timer'[d]
    BY <1>0 DEF ReconnectArmed, Interested, Unconnected
  <2>1. d # c
    BY <1>0 DEF Connecting
  <2> QED BY <1>0, <1>1, <2>1 DEF IInv, ReconnectArmed, TypeOK, ClientTypeOK
<1>5. TrafficNamed'
  <2> SUFFICES ASSUME NEW d \in Clients, NEW f \in Fields, ~Unconnected(d),
                      \/ toServer'[sock[d]][f] # <<>>
                      \/ /\ subscriptionMap[f][sock[d]] > 0
                         /\ f \notin leftBehind[sock[d]]
               PROVE Named(d, f)
    BY <1>0 DEF TrafficNamed, Unconnected, Named
  <2>1. CASE d = c
    <3>1. toServer'[sock[c]][f] = toServer[sock[c]][f] \o Resubscriptions(c)[f]
      BY <1>0, <1>1 DEF TypeOK, WireTypeOK
    <3>2. CASE \/ toServer[sock[c]][f] # <<>>
               \/ /\ subscriptionMap[f][sock[c]] > 0
                  /\ f \notin leftBehind[sock[c]]
      BY <2>1, <3>2 DEF IInv, TrafficNamed
    <3>3. CASE toServer[sock[c]][f] = <<>> /\ toServer'[sock[c]][f] # <<>>
      <4>1. Resubscriptions(c)[f] \in Seq({"subscribe"})
        BY ResubscriptionsOf
      <4>2. Resubscriptions(c)[f] # <<>>
        BY <3>1, <3>3, <4>1
      <4> QED BY <2>1, <4>2, ResubscriptionsOf
    <3> QED BY <2>1, <3>2, <3>3
  <2>2. CASE d # c
    <3>1. sock[d] # sock[c] /\ sock[d] \in Sockets
      BY <1>0, <2>2, SocketOf DEF IInv, OwnSockets
    <3>2. toServer'[sock[d]] = toServer[sock[d]]
      BY <1>0, <1>1, <3>1 DEF TypeOK, WireTypeOK
    <3> QED BY <3>2 DEF IInv, TrafficNamed
  <2> QED BY <2>1, <2>2
<1> QED BY <1>0, <1>2, <1>3, <1>4, <1>5 DEF IInv
LEMMA ClientDisconnectedKeeps ==
  ASSUME IInv, NEW c \in Clients, ClientDisconnected(c)
  PROVE  IInv'
<1>0. /\ TypeOK /\ TypeOK'
      /\ UNCHANGED <<clients, subscriptionMap, leftBehind, alive, known, callbacks, wire, toServer>>
      /\ sock' = [sock EXCEPT ![c] = NoSocket]
      /\ timer' = [timer EXCEPT ![c] = TRUE]
  BY ClientStepType
     DEF IInv, ClientDisconnected, OnDisconnected, serverVars, wireVars
<1>1. /\ Unconnected(c)' /\ timer'[c]
      /\ \A d \in Clients : d # c => sock'[d] = sock[d] /\ timer'[d] = timer[d]
  BY <1>0 DEF Unconnected, TypeOK, ClientTypeOK
<1>2. NoGhosts' /\ CallbacksKeyed' /\ NoDanglingSubscriber' /\ NoDoubleSubscriber'
  BY <1>0 DEF IInv, NoGhosts, CallbacksKeyed, NoDanglingSubscriber,
              NoDoubleSubscriber
<1>3. OwnSockets' /\ ConnectingArmed' /\ ReconnectArmed'
  BY <1>0, <1>1 DEF IInv, OwnSockets, ConnectingArmed, ReconnectArmed,
                    Connecting, Unconnected, Interested
<1>4. TrafficNamed'
  BY <1>0, <1>1 DEF IInv, TrafficNamed, Named, Unconnected
<1> QED BY <1>0, <1>2, <1>3, <1>4 DEF IInv

LEMMA DialFailsKeeps ==
  ASSUME IInv, NEW c \in Clients, Refused(c) \/ AttemptLost(c)
  PROVE  IInv'
<1>0. /\ TypeOK /\ TypeOK' /\ Connecting(c) /\ sock[c] \in Sockets
      /\ UNCHANGED <<clients, subscriptionMap, leftBehind, alive, timer, known, callbacks>>
      /\ wire' = [wire EXCEPT ![sock[c]] = "idle"]
      /\ toServer' = [toServer EXCEPT ![sock[c]] = NoRequests]
      /\ sock' = [sock EXCEPT ![c] = NoSocket]
  BY ClientStepType, SocketOf
     DEF IInv, Refused, AttemptLost, DialFails, serverVars, Connecting
<1>1. /\ Unconnected(c)' /\ timer[c]
      /\ \A d \in Clients : d # c => sock'[d] = sock[d]
  BY <1>0 DEF IInv, ConnectingArmed, Unconnected, TypeOK, ClientTypeOK
<1>2. NoGhosts' /\ CallbacksKeyed' /\ NoDanglingSubscriber' /\ NoDoubleSubscriber'
  BY <1>0 DEF IInv, NoGhosts, CallbacksKeyed, NoDanglingSubscriber,
              NoDoubleSubscriber
<1>3. \A d \in Clients : ~Unconnected(d)' =>
        /\ d # c /\ ~Unconnected(d) /\ sock'[d] = sock[d]
        /\ sock[d] \in Sockets /\ sock[d] # sock[c]
        /\ wire'[sock[d]] = wire[sock[d]]
        /\ toServer'[sock[d]] = toServer[sock[d]]
  BY <1>0, <1>1, SocketOf DEF IInv, OwnSockets, Unconnected, TypeOK, WireTypeOK
<1>4. OwnSockets'
  BY <1>1, <1>3 DEF IInv, OwnSockets, Unconnected
<1>5. ConnectingArmed' /\ ReconnectArmed'
  BY <1>0, <1>1, <1>3 DEF IInv, ConnectingArmed, ReconnectArmed, Connecting,
                          Unconnected, Interested
<1>6. TrafficNamed'
  BY <1>0, <1>3 DEF IInv, TrafficNamed, Named
<1> QED BY <1>0, <1>2, <1>4, <1>5, <1>6 DEF IInv

LEMMA ClientExitsKeeps ==
  ASSUME IInv, NEW c \in Clients, ClientExits(c)
  PROVE  IInv'
<1>0. /\ TypeOK /\ TypeOK'
      /\ UNCHANGED <<clients, subscriptionMap, leftBehind, toServer>>
      /\ alive' = [alive EXCEPT ![c] = FALSE]
      /\ sock' = [sock EXCEPT ![c] = NoSocket]
      /\ timer' = [timer EXCEPT ![c] = FALSE]
      /\ known' = [known EXCEPT ![c] = {}]
      /\ callbacks' = [callbacks EXCEPT ![c] = NoCallbacks]
  BY ClientStepType DEF IInv, ClientExits, Exit, serverVars
<1>1. /\ Unconnected(c)' /\ \A k \in Keys : callbacks'[c][k] = 0
      /\ \A d \in Clients : d # c =>
           /\ sock'[d] = sock[d] /\ timer'[d] = timer[d] /\ alive'[d] = alive[d]
           /\ known'[d] = known[d] /\ callbacks'[d] = callbacks[d]
  BY <1>0 DEF Unconnected, TypeOK, ClientTypeOK, NoCallbacks
<1>2. \A s \in Sockets : wire'[s] = "dialing" => wire[s] = "dialing"
  BY DEF ClientExits, Exit, Cut, IInv, TypeOK, WireTypeOK
<1>3. \A f \in Fields : ~Interested(c, f)'
  <2>1. \A k \in Keys : ~(callbacks'[c][k] > 0)
    BY <1>1
  <2> QED BY <2>1 DEF Interested, Keys
<1>4. NoGhosts' /\ CallbacksKeyed' /\ NoDanglingSubscriber' /\ NoDoubleSubscriber'
  BY <1>0, <1>1 DEF IInv, NoGhosts, CallbacksKeyed, NoDanglingSubscriber,
                    NoDoubleSubscriber
<1>5. OwnSockets'
  BY <1>1 DEF IInv, OwnSockets, Unconnected
<1>6. ConnectingArmed'
  BY <1>0, <1>1, <1>2, SocketOf DEF IInv, ConnectingArmed, Connecting, Unconnected
<1>7. ReconnectArmed'
  BY <1>1, <1>3 DEF IInv, ReconnectArmed, Interested, Unconnected
<1>8. TrafficNamed'
  BY <1>0, <1>1 DEF IInv, TrafficNamed, Named, Unconnected
<1> QED BY <1>0, <1>4, <1>5, <1>6, <1>7, <1>8 DEF IInv

LEMMA NextKeeps == IInv /\ [Next]_vars => IInv'
<1> SUFFICES ASSUME IInv, [Next]_vars PROVE IInv'
  OBVIOUS
<1>1. ASSUME NEW c \in Clients, Widget(c) PROVE IInv'
  BY <1>1, WidgetKeeps
<1>2. ASSUME NEW c \in Clients, Launch(c) PROVE IInv'
  BY <1>2, LaunchKeeps
<1>3. ASSUME NEW c \in Clients, Tick(c) PROVE IInv'
  BY <1>3, TickKeeps
<1>4. ASSUME NEW c \in Clients, ClientConnected(c) PROVE IInv'
  BY <1>4, ClientConnectedKeeps
<1>5. ASSUME NEW c \in Clients, ClientDisconnected(c) PROVE IInv'
  BY <1>5, ClientDisconnectedKeeps
<1>6. ASSUME NEW c \in Clients, Refused(c) \/ AttemptLost(c) PROVE IInv'
  BY <1>6, DialFailsKeeps
<1>7. ASSUME NEW c \in Clients, ClientExits(c) PROVE IInv'
  BY <1>7, ClientExitsKeeps
<1>8. ASSUME ServerStep PROVE IInv'
  BY <1>8, ServerStepKeeps
<1>9. ASSUME UNCHANGED vars PROVE IInv'
  <2>1. UNCHANGED <<wire, backlog, toServer, alive, sock, timer, known, callbacks,
                    serverUp, clients, subscriptionMap, leftBehind, faults>>
    BY <1>9 DEF vars, wireVars, clientVars, serverVars
  <2> QED BY <2>1
          DEF IInv, TypeOK, WireTypeOK, ClientTypeOK, ServerTypeOK, OwnSockets,
              NoGhosts, ConnectingArmed, CallbacksKeyed, NoDanglingSubscriber,
              NoDoubleSubscriber, ReconnectArmed, TrafficNamed, Named,
              Connecting, Unconnected, Interested
<1> QED BY <1>1, <1>2, <1>3, <1>4, <1>5, <1>6, <1>7, <1>8, <1>9
        DEF Next, ServerStep
-------------------------------------------------------------------------------

(* IInv holds in every reachable state. *)
THEOREM LinkInvariant == Spec => []IInv
BY InitIInv, NextKeeps, PTL DEF Spec

(* Type correctness of both ends and of the connections between them.      *)
THEOREM LinkTypeOK == Spec => []TypeOK
<1>1. IInv => TypeOK
  BY DEF IInv
<1> QED BY <1>1, LinkInvariant, PTL

(* No subscriber list of server.cpp holds a socket that is gone, but for   *)
(* the entries that interrupted posts have left behind.                    *)
THEOREM LinkSubscribers == Spec => []NoDanglingSubscriber
<1>1. IInv => NoDanglingSubscriber
  BY DEF IInv
<1> QED BY <1>1, LinkInvariant, PTL

(* No subscriber list holds a socket twice: removeOne leaves nothing.      *)
THEOREM LinkNoDouble == Spec => []NoDoubleSubscriber
<1>1. IInv => NoDoubleSubscriber
  BY DEF IInv
<1> QED BY <1>1, LinkInvariant, PTL

(* ClientManager's timer runs whenever a widget waits and no connection    *)
(* stands, whatever connections broke, failed or were refused before.      *)
THEOREM LinkReconnectArmed == Spec => []ReconnectArmed
<1>1. IInv => ReconnectArmed
  BY DEF IInv
<1> QED BY <1>1, LinkInvariant, PTL

(* Although the addresses of the server's sockets are used again, a        *)
(* connection is served a field its own client has not named only through  *)
(* an entry that an interrupted post of an earlier one has left behind.    *)
THEOREM LinkOnlyNamedFields == Spec => []OnlyNamedFields
<1>1. IInv => OnlyNamedFields
  BY DEF IInv, TrafficNamed, Named, OnlyNamedFields
<1> QED BY <1>1, LinkInvariant, PTL
-------------------------------------------------------------------------------

(* While reads never end inside a request, no interest is ever lost.       *)

LEMMA WillOf ==
  ASSUME NEW s \in Sockets, NEW f \in Fields
  PROVE  /\ WillBeSubscribed(s, f) <=>
              IF toServer[s][f] = <<>> THEN subscriptionMap[f][s] > 0
              ELSE toServer[s][f][Len(toServer[s][f])] = "subscribe"
         /\ WillBeSubscribed(s, f)' <=>
              IF toServer'[s][f] = <<>> THEN subscriptionMap'[f][s] > 0
              ELSE toServer'[s][f][Len(toServer'[s][f])] = "subscribe"
BY DEF WillBeSubscribed

LEMMA WillSame ==
  ASSUME NEW s \in Sockets, NEW f \in Fields,
         toServer'[s][f] = toServer[s][f],
         subscriptionMap'[f][s] = subscriptionMap[f][s],
         WillBeSubscribed(s, f)
  PROVE  WillBeSubscribed(s, f)'
BY DEF WillBeSubscribed

LEMMA LastOfTail ==
  ASSUME NEW q \in Seq(Requests), q # <<>>
  PROVE  /\ Tail(q) # <<>> => Tail(q)[Len(Tail(q))] = q[Len(q)]
         /\ Tail(q) = <<>> => q[Len(q)] = Head(q)
<1>1. Len(q) \in Nat \ {0} /\ Len(Tail(q)) = Len(q) - 1 /\ Head(q) = q[1]
  OBVIOUS
<1>2. \A i \in 1 .. Len(q) - 1 : Tail(q)[i] = q[i + 1]
  OBVIOUS
<1>3. Tail(q) \in Seq(Requests)
  OBVIOUS
<1>4. Tail(q) # <<>> => Len(q) - 1 \in 1 .. Len(q) - 1
  BY <1>1, <1>3
<1>5. ASSUME Tail(q) = <<>> PROVE Len(q) = 1
  <2>1. Len(Tail(q)) = Len(<<>>)
    BY <1>5, Zenon
  <2>2. Len(<<>>) = 0
    OBVIOUS
  <2>3. ASSUME NEW n \in Nat, n - 1 = 0 PROVE n = 1
    BY <2>3
  <2> HIDE <1>5
  <2>4. Len(q) - 1 = 0
    BY <1>1, <2>1, <2>2
  <2> QED BY <1>1, <2>3, <2>4
<1> QED BY <1>1, <1>2, <1>4, <1>5

LEMMA LastOfConcat ==
  ASSUME NEW q \in Seq(Requests), NEW r \in Seq({"subscribe"}), r # <<>>
  PROVE  /\ q \o r # <<>>
         /\ (q \o r)[Len(q \o r)] = "subscribe"
<1>1. Len(q) \in Nat /\ Len(r) \in Nat \ {0} /\ Len(q \o r) = Len(q) + Len(r)
  OBVIOUS
<1>2. (q \o r)[Len(q) + Len(r)] = r[Len(r)]
  BY <1>1
<1>3. r[Len(r)] = "subscribe"
  BY <1>1
<1> QED BY <1>1, <1>2, <1>3

(* The server's own steps. *)
LEMMA ServerStepWill ==
  ASSUME TypeOK, ServerStep, ~Fragmenting, NEW t \in Sockets, NEW g \in Fields,
         wire'[t] = "open", WillBeSubscribed(t, g)
  PROVE  WillBeSubscribed(t, g)'
<1> DEFINE Will == WillBeSubscribed(t, g)'
<1>0. WireTypeOK /\ ServerTypeOK /\ wire[t] = "open"
  BY ServerStepTraffic DEF TypeOK
<1>1. ASSUME UNCHANGED <<toServer, subscriptionMap>> PROVE Will
  BY <1>1, WillSame
<1>2. ASSUME NEW s \in Sockets, DropConnection(s) PROVE Will
  <2>1. /\ s # t
        /\ toServer' = [toServer EXCEPT ![s] = NoRequests]
        /\ subscriptionMap'[g] = RemoveOne(subscriptionMap[g], s)
    BY <1>0, <1>2 DEF DropConnection, ServerDisconnected
  <2>2. toServer'[t][g] = toServer[t][g]
    BY <1>0, <2>1 DEF WireTypeOK
  <2>3. subscriptionMap'[g][t] = subscriptionMap[g][t]
    BY <1>0, <2>1 DEF RemoveOne, ServerTypeOK
  <2> QED BY <2>2, <2>3, WillSame
<1>3. ASSUME ServerDies PROVE Will
  BY <1>3, ServerDiesEffect
<1>4. ASSUME NEW s \in Sockets, NEW f \in Fields, HandleRequest(s, f) PROVE Will
  <2>1. PICK r \in Requests :
          /\ Reads(s, f, r)
          /\ \/ r = "subscribe" /\ ReceiveSubscribe(s, f)
             \/ r = "unsubscribe" /\ ReceiveUnsubscribe(s, f)
    BY <1>4 DEF HandleRequest, ReceiveSubscribe, ReceiveUnsubscribe, Requests
  <2>2. /\ toServer[s][f] \in Seq(Requests) /\ toServer[s][f] # <<>>
        /\ Head(toServer[s][f]) = r
        /\ toServer' = [toServer EXCEPT ![s][f] = Tail(toServer[s][f])]
    BY <1>0, <2>1, ReadsEffect
  <2>3. CASE t = s /\ g = f
    <3> DEFINE q == toServer[s][f]
    <3>1. toServer'[s][f] = Tail(q)
      BY <1>0, <2>2 DEF WireTypeOK
    <3>2. q[Len(q)] = "subscribe"
      BY <2>2, <2>3, WillOf
    <3>3. CASE Tail(q) # <<>>
      BY <2>2, <2>3, <3>1, <3>2, <3>3, LastOfTail, WillOf
    <3>4. CASE Tail(q) = <<>>
      <4>1. r = "subscribe"
        BY <2>2, <3>2, <3>4, LastOfTail
      <4>2. subscriptionMap'[f][s] > 0
        <5>1. ReceiveSubscribe(s, f)
          BY <2>1, <4>1
        <5> QED BY <1>0, <5>1, ServerBounds
                DEF ReceiveSubscribe, Subscribed, ServerTypeOK
      <4> QED BY <2>3, <3>1, <3>4, <4>2, WillOf
    <3> QED BY <3>3, <3>4
  <2>4. CASE ~(t = s /\ g = f)
    <3>1. toServer'[t][g] = toServer[t][g]
      BY <1>0, <2>2, <2>4 DEF WireTypeOK
    <3>2. subscriptionMap'[g][t] = subscriptionMap[g][t]
      BY <1>0, <2>1, <2>4
         DEF ReceiveSubscribe, ReceiveUnsubscribe, Subscribed, RemoveOne,
             ServerTypeOK
    <3> QED BY <3>1, <3>2, WillSame
  <2> QED BY <2>3, <2>4
<1>5. ASSUME NEW s \in Sockets, PostInterrupted(s) PROVE Will
  <2>1. InterruptedRead(s)
    BY <1>5 DEF PostInterrupted
  <2>2. s # t /\ toServer' = [toServer EXCEPT ![s] = NoRequests]
    BY <1>0, <2>1, InterruptedReadEffect
  <2>3. subscriptionMap'[g][t] = subscriptionMap[g][t]
    BY <1>0, <2>1, <2>2, InterruptedReadEffect
  <2>4. toServer'[t][g] = toServer[t][g]
    BY <1>0, <2>2 DEF WireTypeOK
  <2> QED BY <2>3, <2>4, WillSame
<1>6. Will
  BY <1>1, <1>2, <1>3, <1>4, <1>5
     DEF ServerStep, Accept, IncomingConnection, ConnectionBreaks, serverVars,
         GetRequest, ReceiveGet, ServerCrash, Restart, ServerRestarts, wireVars,
         Fragment
<1> QED BY <1>6
-------------------------------------------------------------------------------

(* InterestPreserved, for one client and one field. *)
Kept(c, f) ==
  /\ Interested(c, f)
  /\ Connected(c)
  /\ wire[sock[c]] = "open"
  => WillBeSubscribed(sock[c], f)

LEMMA KeptAll ==
  /\ InterestPreserved <=> \A c \in Clients, f \in Fields : Kept(c, f)
  /\ InterestPreserved' <=> \A c \in Clients, f \in Fields : Kept(c, f)'
BY DEF InterestPreserved, Kept

(* A step that touches neither the client nor its traffic keeps it. *)
LEMMA KeptSame ==
  ASSUME NEW d \in Clients, NEW g \in Fields, Kept(d, g),
         sock'[d] = sock[d],
         Interested(d, g)' => Interested(d, g),
         ~Unconnected(d) =>
           /\ wire'[sock[d]] = "open" => wire[sock[d]] = "open"
           /\ toServer'[sock[d]][g] = toServer[sock[d]][g]
           /\ subscriptionMap'[g][sock[d]] = subscriptionMap[g][sock[d]]
  PROVE  Kept(d, g)'
<1> SUFFICES ASSUME Interested(d, g)', Connected(d)', wire'[sock'[d]] = "open"
             PROVE WillBeSubscribed(sock[d], g)'
  BY DEF Kept
<1>1. ~Unconnected(d)
  BY DEF Connected, Unconnected
<1>2. wire[sock[d]] = "open" /\ Connected(d) /\ Interested(d, g)
  BY <1>1 DEF Connected
<1>3. WillBeSubscribed(sock[d], g)
  BY <1>2 DEF Kept
<1> QED BY <1>1, <1>3 DEF WillBeSubscribed

(* A client that is not connected has nothing to keep. *)
LEMMA KeptUnconnected ==
  ASSUME NEW d \in Clients, NEW g \in Fields,
         ~Connected(d)' \/ ~Interested(d, g)'
  PROVE  Kept(d, g)'
BY DEF Kept

LEMMA ServerStepInterest ==
  ASSUME IInv, InterestPreserved, ~Fragmenting, ServerStep
  PROVE  InterestPreserved'
<1> SUFFICES ASSUME NEW d \in Clients, NEW g \in Fields,
                    Interested(d, g)', Connected(d)', wire'[sock'[d]] = "open"
             PROVE WillBeSubscribed(sock[d], g)'
  BY DEF InterestPreserved
<1>1. TypeOK /\ UNCHANGED <<sock, callbacks>>
  BY ServerStepType DEF IInv, clientVars
<1>2. ~Unconnected(d) /\ sock[d] \in Sockets
  BY <1>1, SocketOf DEF Connected, Unconnected
<1>3. PICK t \in Sockets : t = sock[d]
  BY <1>2
<1>4. wire[t] = "open"
  BY <1>1, <1>3, ServerStepTraffic DEF TypeOK
<1>5. Interested(d, g) /\ Connected(d)
  BY <1>1, <1>2, <1>3, <1>4 DEF Interested, Connected
<1>6. WillBeSubscribed(t, g)
  BY <1>3, <1>4, <1>5 DEF InterestPreserved
<1>7. WillBeSubscribed(t, g)'
  BY <1>1, <1>3, <1>6, ServerStepWill
<1> QED BY <1>1, <1>3, <1>7 DEF WillBeSubscribed

LEMMA WidgetInterest ==
  ASSUME IInv, InterestPreserved, NEW c \in Clients, Widget(c)
  PROVE  InterestPreserved'
<1>0. /\ TypeOK /\ UNCHANGED <<sock, clients, subscriptionMap>>
      /\ \A d \in Clients, f \in Fields : Kept(d, f)
      /\ callbacks \in [Clients -> [Keys -> 0..MaxCallbacks]]
  BY KeptAll DEF IInv, TypeOK, ClientTypeOK, Widget, Subscribe, UnsubscribeAll,
                 serverVars
<1>1. ASSUME NEW f \in Fields, NEW r \in Requests,
             SendRequest(c, f, r) \/ UNCHANGED <<timer, wireVars>>,
             NEW d \in Clients, NEW g \in Fields, d # c \/ g # f,
             Interested(d, g)' => Interested(d, g)
      PROVE Kept(d, g)'
  <2>1. ASSUME ~Unconnected(d)
        PROVE /\ wire'[sock[d]] = wire[sock[d]]
              /\ toServer'[sock[d]][g] = toServer[sock[d]][g]
    <3>1. CASE UNCHANGED wireVars
      BY <3>1 DEF wireVars
    <3>2. CASE ~Unconnected(c) /\ Write(sock[c], f, r)
      <4>1. sock[c] \in Sockets /\ sock[d] \in Sockets
        BY <1>0, <2>1, <3>2, SocketOf
      <4>2. sock[d] # sock[c] \/ g # f
        BY <1>1, <2>1 DEF IInv, OwnSockets
      <4> QED BY <1>0, <3>2, <4>1, <4>2, WriteEffect DEF TypeOK
    <3> QED BY <1>1, <3>1, <3>2 DEF SendRequest, wireVars
  <2> QED BY <1>0, <1>1, <2>1, KeptSame
<1>2. ASSUME NEW kind \in Kinds, NEW f \in Fields, Subscribe(c, kind, f),
             NEW d \in Clients, NEW g \in Fields
      PROVE Kept(d, g)'
  <2> DEFINE key == <<kind, f>>
  <2>1. /\ callbacks' = [callbacks EXCEPT ![c][key] = @ + 1]
        /\ key \in Keys /\ "subscribe" \in Requests
        /\ IF callbacks[c][key] = 0 THEN SendRequest(c, f, "subscribe")
                                    ELSE UNCHANGED <<timer, wireVars>>
    BY <1>2 DEF Subscribe, Keys, Requests
  <2>2. ASSUME d # c \/ g # f, Interested(d, g)' PROVE Interested(d, g)
    <3>1. \A k \in Kinds : callbacks'[d][<<k, g>>] = callbacks[d][<<k, g>>]
      <4> SUFFICES ASSUME NEW k \in Kinds
                   PROVE callbacks'[d][<<k, g>>] = callbacks[d][<<k, g>>]
        OBVIOUS
      <4>1. <<k, g>> \in Keys
        BY DEF Keys
      <4>2. CASE d # c
        BY <1>0, <2>1, <4>2
      <4>3. CASE d = c /\ g # f
        <5>1. <<k, g>> # key
          BY <4>3
        <5>2. callbacks'[c] = [callbacks[c] EXCEPT ![key] = @ + 1]
          BY <1>0, <2>1
        <5> QED BY <1>0, <4>1, <4>3, <5>1, <5>2
      <4> QED BY <2>2, <4>2, <4>3
    <3> QED BY <2>2, <3>1 DEF Interested
  <2>3. CASE d # c \/ g # f
    BY <1>1, <2>1, <2>2, <2>3
  <2>4. CASE d = c /\ g = f /\ callbacks[c][key] # 0
    <3>1. Interested(c, f)
      <4>1. callbacks[c][key] \in Nat
        BY <1>0, <2>1
      <4>2. callbacks[c][key] > 0
        BY <2>4, <4>1
      <4> QED BY <4>2 DEF Interested
    <3> QED BY <1>0, <2>1, <2>4, <3>1, KeptSame DEF wireVars
  <2>5. CASE d = c /\ g = f /\ callbacks[c][key] = 0
    <3>1. CASE Unconnected(c)
      BY <1>0, <2>5, <3>1, KeptUnconnected DEF Connected, Unconnected
    <3>2. CASE ~Unconnected(c)
      <4>1. PICK s \in Sockets : s = sock[c] /\ sock'[c] = s
        BY <1>0, <3>2, SocketOf
      <4>2. Write(s, f, "subscribe") /\ WireTypeOK
        BY <1>0, <2>1, <2>5, <3>2, <4>1 DEF SendRequest, TypeOK
      <4>3. /\ wire' = wire
            /\ toServer'[s][f] = IF wire[s] = "cut" THEN toServer[s][f]
                                 ELSE Append(toServer[s][f], "subscribe")
        BY <2>1, <4>2, WriteEffect
      <4>4. ASSUME wire'[s] = "open" PROVE WillBeSubscribed(s, f)'
        <5>1. toServer'[s][f] = Append(toServer[s][f], "subscribe")
          BY <4>3, <4>4
        <5>2. toServer[s][f] \in Seq(Requests)
          BY <4>2 DEF WireTypeOK
        <5>3. /\ toServer'[s][f] # <<>>
              /\ toServer'[s][f][Len(toServer'[s][f])] = "subscribe"
          BY <2>1, <5>1, <5>2
        <5> QED BY <5>3, WillOf
      <4>5. ASSUME wire'[sock'[c]] = "open" PROVE WillBeSubscribed(sock[c], f)'
        BY <4>1, <4>4, <4>5 DEF WillBeSubscribed
      <4> QED BY <2>5, <4>5 DEF Kept
    <3> QED BY <3>1, <3>2
  <2> QED BY <2>3, <2>4, <2>5
<1>3. ASSUME NEW f \in Fields, UnsubscribeAll(c, f),
             NEW d \in Clients, NEW g \in Fields
      PROVE Kept(d, g)'
  <2>1. /\ callbacks' = [callbacks EXCEPT ![c] =
                           [k \in Keys |-> IF k[2] = f THEN 0 ELSE @[k]]]
        /\ SendRequest(c, f, "unsubscribe") /\ "unsubscribe" \in Requests
    BY <1>3 DEF UnsubscribeAll, Requests
  <2>2. \A k \in Kinds : <<k, g>> \in Keys /\ <<k, g>>[2] = g
    BY DEF Keys
  <2>3. d # c \/ g # f => (Interested(d, g)' => Interested(d, g))
    <3>1. d # c => callbacks'[d] = callbacks[d]
      BY <1>0, <2>1
    <3>2. g # f => \A k \in Kinds : callbacks'[c][<<k, g>>] = callbacks[c][<<k, g>>]
      BY <1>0, <2>1, <2>2
    <3> QED BY <3>1, <3>2 DEF Interested
  <2>4. CASE d # c \/ g # f
    BY <1>1, <2>1, <2>3, <2>4
  <2>5. CASE d = c /\ g = f
    <3>1. \A k \in Kinds : callbacks'[c][<<k, f>>] = 0
      BY <1>0, <2>1, <2>2, <2>5
    <3>2. \A k \in Kinds : ~(callbacks'[c][<<k, f>>] > 0)
      BY <3>1
    <3>3. ~Interested(d, g)'
      BY <2>5, <3>2 DEF Interested
    <3> QED BY <3>3, KeptUnconnected
  <2> QED BY <2>4, <2>5
<1> QED BY <1>2, <1>3, KeptAll DEF Widget

(* What a step of c does to its own connection leaves the others alone. *)
LEMMA OthersKept ==
  ASSUME InterestPreserved, NEW c \in Clients, UNCHANGED subscriptionMap,
         \A d \in Clients : d # c =>
           /\ sock'[d] = sock[d]
           /\ callbacks'[d] = callbacks[d]
           /\ ~Unconnected(d) =>
                /\ wire'[sock[d]] = "open" => wire[sock[d]] = "open"
                /\ toServer'[sock[d]] = toServer[sock[d]],
         \A g \in Fields : Kept(c, g)'
  PROVE  InterestPreserved'
<1> SUFFICES ASSUME NEW d \in Clients, d # c, NEW g \in Fields PROVE Kept(d, g)'
  BY KeptAll
<1>1. Kept(d, g)
  BY KeptAll
<1>2. Interested(d, g)' => Interested(d, g)
  BY DEF Interested
<1> QED BY <1>1, <1>2, KeptSame

LEMMA ClientStepInterest ==
  ASSUME IInv, InterestPreserved, NEW c \in Clients,
         \/ Launch(c) \/ Tick(c) \/ ClientDisconnected(c)
         \/ Refused(c) \/ AttemptLost(c) \/ ClientExits(c)
  PROVE  InterestPreserved'
<1>0. /\ TypeOK /\ WireTypeOK /\ ClientTypeOK
      /\ UNCHANGED <<clients, subscriptionMap, leftBehind>>
  BY DEF IInv, TypeOK, Launch, Tick, ClientDisconnected, Refused, AttemptLost,
         ClientExits, serverVars
<1>1. CASE Launch(c)
  <2> DEFINE Others == \A d \in Clients : d # c =>
                         /\ sock'[d] = sock[d]
                         /\ ~Unconnected(d) =>
                              /\ wire'[sock[d]] = wire[sock[d]]
                              /\ toServer'[sock[d]] = toServer[sock[d]]
  <2>1. UNCHANGED callbacks /\ ~alive[c] /\ Others
    <3>1. ASSUME ConstructUnconnected(c)
          PROVE UNCHANGED callbacks /\ ~alive[c] /\ Others
      BY <3>1 DEF ConstructUnconnected, wireVars
    <3>2. ASSUME NEW s \in Sockets, Free(s), ConstructConnected(c, s)
          PROVE UNCHANGED callbacks /\ ~alive[c] /\ Others
      <4>1. /\ UNCHANGED callbacks /\ ~alive[c]
            /\ sock' = [sock EXCEPT ![c] = s]
            /\ wire' = [wire EXCEPT ![s] = "open"]
            /\ toServer' = [toServer EXCEPT ![s] = NoRequests]
            /\ \A d \in Clients : sock[d] # s
        BY <3>2 DEF ConstructConnected, Free
      <4>2. \A d \in Clients : d # c => sock'[d] = sock[d]
        BY <1>0, <4>1 DEF ClientTypeOK
      <4>3. \A d \in Clients : ~Unconnected(d) =>
              /\ wire'[sock[d]] = wire[sock[d]]
              /\ toServer'[sock[d]] = toServer[sock[d]]
        BY <1>0, <4>1, SocketOf DEF WireTypeOK
      <4> QED BY <4>1, <4>2, <4>3
    <3> QED BY <1>1, <3>1, <3>2 DEF Launch
  <2>2. ASSUME NEW g \in Fields PROVE ~Interested(c, g)'
    <3>1. \A k \in Keys : ~(callbacks'[c][k] > 0)
      BY <2>1 DEF IInv, NoGhosts
    <3> QED BY <3>1 DEF Interested, Keys
  <2> QED BY <1>0, <2>1, <2>2, KeptUnconnected, OthersKept
<1>2. CASE Tick(c)
  <2>1. PICK s \in Sockets :
          /\ UNCHANGED callbacks
          /\ sock' = [sock EXCEPT ![c] = s]
          /\ wire' = [wire EXCEPT ![s] = "dialing"]
          /\ toServer' = [toServer EXCEPT ![s] = NoRequests]
          /\ \A d \in Clients : sock[d] # s
    BY <1>2 DEF Tick, ReconnectTick, Dial, Free
  <2>2. ~Connected(c)'
    BY <1>0, <2>1 DEF Connected, WireTypeOK, ClientTypeOK
  <2>3. \A d \in Clients : d # c /\ ~Unconnected(d) =>
          /\ wire'[sock[d]] = wire[sock[d]]
          /\ toServer'[sock[d]] = toServer[sock[d]]
    BY <1>0, <2>1, SocketOf DEF WireTypeOK
  <2>4. \A d \in Clients : d # c => sock'[d] = sock[d]
    BY <1>0, <2>1 DEF ClientTypeOK
  <2> QED BY <1>0, <2>1, <2>2, <2>3, <2>4, KeptUnconnected, OthersKept
<1>3. CASE ClientDisconnected(c)
  <2>1. /\ sock' = [sock EXCEPT ![c] = NoSocket]
        /\ UNCHANGED <<wire, toServer, callbacks>>
    BY <1>3 DEF ClientDisconnected, OnDisconnected, wireVars
  <2>2. ~Connected(c)' /\ \A d \in Clients : d # c => sock'[d] = sock[d]
    BY <1>0, <2>1 DEF ClientTypeOK, Connected, Unconnected
  <2> QED BY <1>0, <2>1, <2>2, KeptUnconnected, OthersKept
<1>4. CASE Refused(c) \/ AttemptLost(c)
  <2>1. /\ sock' = [sock EXCEPT ![c] = NoSocket]
        /\ wire' = [wire EXCEPT ![sock[c]] = "idle"]
        /\ toServer' = [toServer EXCEPT ![sock[c]] = NoRequests]
        /\ ~Unconnected(c)
        /\ UNCHANGED callbacks
    BY <1>4 DEF Refused, AttemptLost, DialFails, Connecting
  <2>2. ~Connected(c)' /\ \A d \in Clients : d # c => sock'[d] = sock[d]
    BY <1>0, <2>1 DEF ClientTypeOK, Connected, Unconnected
  <2>3. \A d \in Clients : d # c /\ ~Unconnected(d) => sock[d] # sock[c]
    BY DEF IInv, OwnSockets
  <2>4. \A d \in Clients : d # c /\ ~Unconnected(d) =>
          /\ wire'[sock[d]] = wire[sock[d]]
          /\ toServer'[sock[d]] = toServer[sock[d]]
    BY <1>0, <2>1, <2>3, SocketOf DEF WireTypeOK
  <2> QED BY <1>0, <2>1, <2>2, <2>4, KeptUnconnected, OthersKept
<1>5. CASE ClientExits(c)
  <2>1. /\ sock' = [sock EXCEPT ![c] = NoSocket]
        /\ callbacks' = [callbacks EXCEPT ![c] = NoCallbacks]
        /\ UNCHANGED toServer
    BY <1>5 DEF ClientExits, Exit
  <2>2. /\ ~Connected(c)'
        /\ \A d \in Clients : d # c =>
             sock'[d] = sock[d] /\ callbacks'[d] = callbacks[d]
    BY <1>0, <2>1 DEF ClientTypeOK, Connected, Unconnected
  <2>3. \A s \in Sockets : wire'[s] = "open" => wire[s] = "open"
    BY <1>0, <1>5 DEF ClientExits, Exit, Cut, WireTypeOK
  <2> QED BY <1>0, <2>1, <2>2, <2>3, SocketOf, KeptUnconnected, OthersKept
<1> QED BY <1>1, <1>2, <1>3, <1>4, <1>5

(* connected() asks again for every key, so for every field with a         *)
(* callback; the timer is on because only the timer dials.                 *)
LEMMA ClientConnectedInterest ==
  ASSUME IInv, InterestPreserved, NEW c \in Clients, ClientConnected(c)
  PROVE  InterestPreserved'
<1>0. /\ TypeOK /\ WireTypeOK /\ Connecting(c) /\ sock[c] \in Sockets
      /\ UNCHANGED <<subscriptionMap, sock, callbacks, known>>
  BY SocketOf DEF IInv, TypeOK, ClientConnected, OnConnected, serverVars, Connecting
<1>1. /\ wire' = [wire EXCEPT ![sock[c]] = "open"]
      /\ toServer' = [toServer EXCEPT ![sock[c]] =
                        [f \in Fields |-> @[f] \o Resubscriptions(c)[f]]]
  BY DEF ClientConnected, OnConnected, Establish
<1>2. \A d \in Clients : d # c /\ ~Unconnected(d) =>
        /\ wire'[sock[d]] = wire[sock[d]]
        /\ toServer'[sock[d]] = toServer[sock[d]]
  <2>1. \A d \in Clients : d # c /\ ~Unconnected(d) => sock[d] # sock[c]
    BY DEF IInv, OwnSockets
  <2> QED BY <1>0, <1>1, <2>1, SocketOf DEF WireTypeOK
<1>3. ASSUME NEW g \in Fields PROVE Kept(c, g)'
  <2> SUFFICES ASSUME Interested(c, g)' PROVE WillBeSubscribed(sock[c], g)'
    BY <1>0 DEF Kept
  <2>1. Named(c, g)
    <3>1. PICK k \in Kinds : callbacks[c][<<k, g>>] > 0
      BY <1>0 DEF Interested
    <3> QED BY <3>1 DEF IInv, CallbacksKeyed, Keys, Named
  <2>2. /\ Resubscriptions(c)[g] \in Seq({"subscribe"})
        /\ Resubscriptions(c)[g] # <<>>
    BY <1>0, <2>1, ResubscriptionsOf DEF IInv, ConnectingArmed
  <2>3. PICK s \in Sockets : s = sock[c] /\ sock'[c] = s
    BY <1>0
  <2>4. toServer'[s][g] = toServer[s][g] \o Resubscriptions(c)[g]
    BY <1>0, <1>1, <2>3 DEF WireTypeOK
  <2>5. toServer[s][g] \in Seq(Requests)
    BY <1>0 DEF WireTypeOK
  <2>6. WillBeSubscribed(s, g)'
    BY <2>2, <2>4, <2>5, LastOfConcat, WillOf
  <2> QED BY <2>3, <2>6 DEF WillBeSubscribed
<1> QED BY <1>0, <1>2, <1>3, OthersKept

LEMMA NextInterest ==
  ASSUME IInv, InterestPreserved, ~Fragmenting, [Next]_vars
  PROVE  InterestPreserved'
<1>1. ASSUME NEW c \in Clients, Widget(c) PROVE InterestPreserved'
  BY <1>1, WidgetInterest
<1>2. ASSUME NEW c \in Clients, ClientConnected(c) PROVE InterestPreserved'
  BY <1>2, ClientConnectedInterest
<1>3. ASSUME NEW c \in Clients,
             \/ Launch(c) \/ Tick(c) \/ ClientDisconnected(c)
             \/ Refused(c) \/ AttemptLost(c) \/ ClientExits(c)
      PROVE InterestPreserved'
  BY <1>3, ClientStepInterest
<1>4. ASSUME ServerStep PROVE InterestPreserved'
  BY <1>4, ServerStepInterest
<1>5. ASSUME UNCHANGED vars PROVE InterestPreserved'
  <2>1. UNCHANGED <<wire, toServer, sock, callbacks, subscriptionMap>>
    BY <1>5 DEF vars, wireVars, clientVars, serverVars
  <2> QED BY <2>1
          DEF InterestPreserved, Interested, Connected, Unconnected,
              WillBeSubscribed
<1> QED BY <1>1, <1>2, <1>3, <1>4, <1>5 DEF Next, ServerStep

(* As long as every read of the server ends with a request, no mix of      *)
(* widgets that come and go, broken connections, restarts and              *)
(* reconnections makes an open connection lose a field a widget of         *)
(* ClientManager waits for.                                                *)
THEOREM LinkInterestPreserved ==
  ASSUME ~Fragmenting
  PROVE  Spec => []InterestPreserved
<1>1. Init => InterestPreserved
  BY DEF Init, ClientInit, InterestPreserved, Connected, Unconnected
<1>2. IInv /\ InterestPreserved /\ [Next]_vars => InterestPreserved'
  BY NextInterest
<1> QED BY <1>1, <1>2, LinkInvariant, PTL DEF Spec
===============================================================================
