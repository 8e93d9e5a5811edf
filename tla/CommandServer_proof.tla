------------------------- MODULE CommandServer_proof -------------------------
(***************************************************************************)
(* Proofs about CommandServer, for any number of clients, requests,        *)
(* packets and disconnections.                                             *)
(***************************************************************************)
EXTENDS CommandServer, SequenceTheorems, FiniteSetTheorems, TLAPS

(* What a call on the stack is, and the values a fan-out may carry. *)
LEMMA ValueTypes ==
  ASSUME TypeOK
  PROVE  /\ Text("none") \in Values
         /\ Text(port) \in Values
         /\ Text(portName) \in Values
         /\ Packet(telemetry) \in Values
  BY CommandAssumption DEF TypeOK, Values, Text, Packet

(* A fan-out of a known value and a running readyRead are calls. *)
LEMMA CallTypes ==
  ASSUME TypeOK, NEW value \in Values
  PROVE  /\ \A s \in Sockets : /\ Fanout(s, "status", value) \in Calls
                               /\ Fanout(s, "name", value) \in Calls
                               /\ Reading(s) \in Calls
         /\ Fanout(NoSocket, "telemetry", value) \in Calls
  <1>1. subscribers \in Seq(Sockets)
    BY DEF TypeOK
  <1>2. ASSUME NEW s \in Sockets
        PROVE  /\ Fanout(s, "status", value) \in Calls
               /\ Fanout(s, "name", value) \in Calls
    BY <1>1, CommandAssumption DEF Fanout, Calls, UpdateFields
  <1>3. ASSUME NEW s \in Sockets PROVE Reading(s) \in Calls
    BY ValueTypes, CommandAssumption DEF Reading, Calls
  <1>4. Fanout(NoSocket, "telemetry", value) \in Calls
    BY <1>1, CommandAssumption DEF Fanout, Calls, UpdateFields
  <1> QED BY <1>2, <1>3, <1>4

(* The innermost call is a call, and the others are what is left. *)
LEMMA TopTypes ==
  ASSUME TypeOK, ~Idle
  PROVE  /\ Top \in Calls
         /\ Tail(stack) \in Seq(Calls)
         /\ Len(stack) \in Nat \ {0}
         /\ Top = stack[1]
         /\ Len(Tail(stack)) = Len(stack) - 1
         /\ \A i \in 1 .. Len(stack) - 1 : Tail(stack)[i] = stack[i + 1]
  BY DEF TypeOK, Idle, Top

(* A call in front of a stack. *)
LEMMA PushProperties ==
  ASSUME NEW call \in Calls, NEW calls \in Seq(Calls)
  PROVE  /\ <<call>> \o calls \in Seq(Calls)
         /\ Len(<<call>> \o calls) = Len(calls) + 1
         /\ (<<call>> \o calls)[1] = call
         /\ \A i \in 2 .. Len(calls) + 1 : (<<call>> \o calls)[i] = calls[i - 1]
  <1>1. <<call>> \in Seq(Calls) /\ Len(<<call>>) = 1 /\ <<call>>[1] = call
    OBVIOUS
  <1> QED BY <1>1, ConcatProperties

(* removeOne keeps a list a list. *)
LEMMA RemoveOneType ==
  ASSUME NEW list \in Seq(Sockets), NEW s
  PROVE  RemoveOne(list, s) \in Seq(Sockets)
  <1>1. CASE ~Listed(list, s)
    BY <1>1 DEF RemoveOne
  <1>2. CASE Listed(list, s)
    <2> DEFINE e(i) == IF \E j \in 1 .. i : list[j] = s THEN list[i + 1]
                                                        ELSE list[i]
    <2>1. Len(list) - 1 \in Nat
      BY <1>2 DEF Listed
    <2>2. \A i \in 1 .. Len(list) - 1 : e(i) \in Sockets
      OBVIOUS
    <2>3. [i \in 1 .. Len(list) - 1 |-> e(i)]
            \in [1 .. Len(list) - 1 -> Sockets]
      BY <2>2
    <2>4. RemoveOne(list, s) = [i \in 1 .. Len(list) - 1 |-> e(i)]
      BY <1>2 DEF RemoveOne
    <2> HIDE DEF e
    <2> QED BY <2>1, <2>3, <2>4
  <1> QED BY <1>1, <1>2

(* removeOne brings nobody in. *)
LEMMA RemoveOneKeeps ==
  ASSUME NEW list \in Seq(Sockets), NEW s, NEW t,
         Listed(RemoveOne(list, s), t)
  PROVE  Listed(list, t)
  <1>1. CASE ~Listed(list, s)
    BY <1>1 DEF RemoveOne
  <1>2. CASE Listed(list, s)
    <2> DEFINE e(i) == IF \E j \in 1 .. i : list[j] = s THEN list[i + 1]
                                                        ELSE list[i]
    <2>1. RemoveOne(list, s) = [i \in 1 .. Len(list) - 1 |-> e(i)]
      BY <1>2 DEF RemoveOne
    <2>2. PICK i \in 1 .. Len(list) - 1 : e(i) = t
      BY <2>1 DEF Listed
    <2>3. list[i + 1] = t \/ list[i] = t
      BY <2>2
    <2> QED BY <2>3 DEF Listed
  <1> QED BY <1>1, <1>2

(* removeOne of a list without repetitions is one, and has no s left.      *)
LEMMA RemoveOneOnly ==
  ASSUME NEW list \in Seq(Sockets), NEW s,
         \A i, j \in 1 .. Len(list) : list[i] = list[j] => i = j
  PROVE  LET less == RemoveOne(list, s) IN
         /\ \A i, j \in 1 .. Len(less) : less[i] = less[j] => i = j
         /\ ~Listed(less, s)
  <1>1. CASE ~Listed(list, s)
    BY <1>1 DEF RemoveOne
  <1>2. CASE Listed(list, s)
    <2> DEFINE n == Len(list) - 1
               late(i) == \E j \in 1 .. i : list[j] = s
               e(i) == IF late(i) THEN list[i + 1] ELSE list[i]
               less == RemoveOne(list, s)
    <2>1. n \in Nat
      BY <1>2 DEF Listed
    <2>2. less = [i \in 1 .. n |-> e(i)]
      BY <1>2 DEF RemoveOne
    <2>3. Len(less) = n /\ DOMAIN less = 1 .. n
      BY <2>1, <2>2
    <2>4. \A i \in 1 .. n : less[i] = e(i)
      BY <2>2
    <2> HIDE DEF less
    <2>5. ASSUME NEW i \in 1 .. n PROVE e(i) # s
      BY <2>1
    <2>6. ASSUME NEW i \in 1 .. n, NEW k \in 1 .. n, e(i) = e(k)
          PROVE  i = k
      <3>1. late(i) /\ i < k => late(k)
        OBVIOUS
      <3>2. late(k) /\ k < i => late(i)
        OBVIOUS
      <3> HIDE DEF late
      <3>3. CASE late(i) <=> late(k)
        BY <2>6, <3>3
      <3>4. CASE late(i) /\ ~late(k)
        <4>1. i + 1 = k
          BY <2>6, <3>4
        <4> QED BY <3>1, <3>4, <4>1
      <3>5. CASE ~late(i) /\ late(k)
        <4>1. k + 1 = i
          BY <2>6, <3>5
        <4> QED BY <3>2, <3>5, <4>1
      <3> QED BY <3>3, <3>4, <3>5
    <2> HIDE DEF e
    <2> QED BY <2>3, <2>4, <2>5, <2>6 DEF Listed, less
  <1> QED BY <1>1, <1>2

(* How the stack may change: a call ends, another takes its place for the  *)
(* same reader, a socket is read whose readyRead does not run yet, or      *)
(* telemetry begins a new stack.                                           *)
Popped == ~Idle /\ stack' = Tail(stack)

Pushed ==
  \E s \in Sockets \ Readers : stack' = <<Reading(s)>> \o stack

Replaced ==
  \E call \in Calls :
    /\ ~Idle
    /\ Replace(call)
    /\ call.reader = Top.reader
    /\ call.field = "telemetry" <=> Top.field = "telemetry"
    /\ call.field = "telemetry" => call.value = Top.value
    /\ call.field = "status" =>
         \/ call.value = Text(port')
         \/ Top.field = "status" /\ call.value = Top.value

Started ==
  /\ stack' = <<Fanout(NoSocket, "telemetry", Packet(telemetry'))>>
  /\ Fanout(NoSocket, "telemetry", Packet(telemetry')) \in Calls

Kept == stack' = stack \/ stack' = <<>>

StackStep ==
  \/ (Kept \/ Popped \/ Pushed \/ Replaced) /\ telemetry' = telemetry
  \/ Started

(* A command's fan-out takes the place of the readyRead that handles it.   *)
LEMMA FanoutReplaces ==
  ASSUME TypeOK, ~Idle, Top.field \in {"read", "status", "name"},
         NEW field \in {"status", "name"}, NEW value \in Values,
         field = "status" => value = Text(port'),
         Replace(Fanout(Top.reader, field, value))
  PROVE  Replaced
  <1>1. Top.reader \in Sockets
    BY TopTypes DEF Calls
  <1>2. Fanout(Top.reader, field, value) \in Calls
    BY <1>1, CallTypes
  <1>3. /\ Fanout(Top.reader, field, value).reader = Top.reader
        /\ Fanout(Top.reader, field, value).field = field
        /\ Fanout(Top.reader, field, value).value = value
    BY DEF Fanout
  <1> QED BY <1>2, <1>3 DEF Replaced

(* Every step changes the stack in one of these ways. *)
LEMMA StackSteps ==
  ASSUME TypeOK, [Next]_vars
  PROVE  StackStep
  <1>1. ASSUME NEW s \in Sockets, NEW r \in Requests, ClientSends(s, r)
        PROVE  StackStep
    BY <1>1 DEF ClientSends, radioVars, StackStep, Kept
  <1>2. ASSUME NEW s \in Sockets, ReadyRead(s) PROVE StackStep
    BY <1>2 DEF ReadyRead, radioVars, StackStep, Pushed
  <1>3. ASSUME NEW s \in Sockets, Disconnected(s) \/ DeferredDelete(s)
        PROVE  StackStep
    BY <1>3 DEF Disconnected, DeferredDelete, radioVars,
                StackStep, Kept
  <1>4. CASE \/ ReceiveSubscribe \/ ReceiveUnsubscribe \/ ReceiveGet
             \/ SendOrder \/ UnmappedCommand
    BY <1>4 DEF ReceiveSubscribe, ReceiveUnsubscribe, ReceiveGet, SendOrder,
                UnmappedCommand, Handles, radioVars, StackStep, Kept
  <1>5. CASE SetSerialStatus
    <2>1. ~Idle /\ Top.field = "read" /\ telemetry' = telemetry
      BY <1>5 DEF SetSerialStatus, Handles, radioVars
    <2>2. Text(port') \in Values
      BY <1>5 DEF SetSerialStatus, OpenSerialPort, CloseSerialPort, TypeOK,
                  Values
    <2>3. Replaced
      BY <1>5, <2>1, <2>2, FanoutReplaces DEF SetSerialStatus
    <2> QED BY <2>1, <2>3 DEF StackStep
  <1>6. CASE SerialStatus \/ SerialNameUse
    <2>1. /\ ~Idle /\ Top.field = "read" /\ telemetry' = telemetry
          /\ port' = port
      BY <1>6 DEF SerialStatus, SerialNameUse, Handles, serialVars, radioVars
    <2>2. Replaced
      BY <1>6, <2>1, ValueTypes, FanoutReplaces
         DEF SerialStatus, SerialNameUse
    <2> QED BY <2>1, <2>2 DEF StackStep
  <1>7. CASE ReadEnds
    BY <1>7 DEF ReadEnds, radioVars, StackStep, Popped
  <1>8. CASE WriteUpdate \/ WaitEnds
    <2>1. ~Idle /\ telemetry' = telemetry
      BY <1>8 DEF WriteUpdate, WaitEnds, radioVars
    <2>2. CASE WriteUpdate
      <3> DEFINE call == [Top EXCEPT !.waiting = TRUE]
      <3>1. call \in Calls /\ call.reader = Top.reader
              /\ call.field = Top.field /\ call.value = Top.value
        BY <2>1, <2>2, TopTypes DEF WriteUpdate, Calls
      <3>2. Replace(call)
        BY <2>2 DEF WriteUpdate
      <3> QED BY <2>1, <3>1, <3>2 DEF StackStep, Replaced
    <2>3. CASE WaitEnds
      <3> DEFINE call == [Top EXCEPT !.waiting = FALSE, !.todo = Tail(@)]
      <3>1. Tail(Top.todo) \in Seq(Sockets)
        BY <2>1, <2>3, TopTypes DEF WaitEnds, Calls
      <3>2. call \in Calls /\ call.reader = Top.reader
              /\ call.field = Top.field /\ call.value = Top.value
        BY <2>1, <3>1, TopTypes DEF Calls
      <3>3. Replace(call)
        BY <2>3 DEF WaitEnds
      <3> QED BY <2>1, <3>2, <3>3 DEF StackStep, Replaced
    <2> QED BY <1>8, <2>2, <2>3
  <1>9. CASE FanoutEnds
    <2>1. ~Idle /\ telemetry' = telemetry /\ stack' = After
      BY <1>9 DEF FanoutEnds, radioVars
    <2>2. CASE Top.field = "status"
      <3>1. Replace(Fanout(Top.reader, "name", Text(portName)))
        BY <2>1, <2>2 DEF After, Replace
      <3> QED BY <2>1, <2>2, <3>1, ValueTypes, FanoutReplaces DEF StackStep
    <2>3. CASE Top.field = "name"
      <3>1. Replace(Reading(Top.reader))
        BY <2>1, <2>3 DEF After, Replace
      <3>2. /\ Reading(Top.reader) \in Calls
            /\ Reading(Top.reader).reader = Top.reader
            /\ Reading(Top.reader).field = "read"
        BY <2>1, <2>3, CallTypes, ValueTypes, TopTypes DEF Reading, Calls
      <3> QED BY <2>1, <2>3, <3>1, <3>2 DEF StackStep, Replaced
    <2>4. CASE Top.field \notin {"status", "name"}
      BY <2>1, <2>4 DEF After, StackStep, Popped
    <2> QED BY <2>2, <2>3, <2>4
  <1>10. CASE WriteToDeleted
    BY <1>10 DEF WriteToDeleted, radioVars, StackStep, Kept
  <1>11. CASE TelemetryPacket
    <2>1. telemetry' \in 0..MaxTelemetry
      BY <1>11, CommandAssumption DEF TelemetryPacket, TypeOK
    <2>2. Packet(telemetry') \in Values
      BY <2>1 DEF Values
    <2>3. Fanout(NoSocket, "telemetry", Packet(telemetry')) \in Calls
      BY <2>2, CallTypes
    <2> QED BY <1>11, <2>3 DEF TelemetryPacket, StackStep, Started
  <1>12. CASE AbortPacket \/ AbortTick \/ SerialError
    BY <1>12 DEF AbortPacket, AbortTick, SerialError, radioVars, StackStep,
                 Kept
  <1>13. CASE UNCHANGED vars
    BY <1>13 DEF vars, radioVars, StackStep, Kept
  <1> QED
    BY <1>1, <1>2, <1>3, <1>4, <1>5, <1>6, <1>7, <1>8, <1>9, <1>10, <1>11,
       <1>12, <1>13 DEF Next, Continue, HandleRequest

(* No such change makes the stack anything but a sequence of calls. *)
LEMMA StackTypes ==
  ASSUME TypeOK, StackStep
  PROVE  stack' \in Seq(Calls)
  <1>1. CASE Kept
    <2>1. stack \in Seq(Calls) /\ <<>> \in Seq(Calls)
      BY EmptySeq DEF TypeOK
    <2> HIDE DEF Calls
    <2> QED BY <1>1, <2>1 DEF Kept
  <1>2. CASE Popped
    BY <1>2, TopTypes DEF Popped
  <1>3. CASE Pushed
    <2>1. PICK s \in Sockets \ Readers : stack' = <<Reading(s)>> \o stack
      BY <1>3 DEF Pushed
    <2>2. Reading(s) \in Calls
      BY ValueTypes, CallTypes
    <2> QED BY <2>1, <2>2, PushProperties DEF TypeOK
  <1>4. CASE Replaced
    BY <1>4, TopTypes, PushProperties DEF Replaced, Replace
  <1>5. CASE Started
    BY <1>5 DEF Started
  <1> QED BY <1>1, <1>2, <1>3, <1>4, <1>5 DEF StackStep

SerialTypeOK ==
  /\ port \in {"open", "close"}
  /\ portName \in {"tty", "-"}

FlagsTypeOK ==
  /\ running \in BOOLEAN
  /\ unreported \in BOOLEAN
  /\ abort_initiated \in BOOLEAN

CountersTypeOK ==
  /\ telemetry \in 0..MaxTelemetry
  /\ abortParity \in {0, 1}

SocketsTypeOK ==
  /\ subscribers \in Seq(Sockets)
  /\ object \in [Sockets -> {"live", "closed", "deleted"}]
  /\ inbox \in [Sockets -> Seq(Requests)]

SeenTypeOK == seen \in [Sockets -> [UpdateFields -> Values]]

(* TypeOK by groups of variables, one lemma each. *)
LEMMA TypeParts ==
  TypeOK <=> /\ SerialTypeOK /\ FlagsTypeOK /\ CountersTypeOK
             /\ SocketsTypeOK /\ SeenTypeOK /\ stack \in Seq(Calls)
  BY DEF TypeOK, SerialTypeOK, FlagsTypeOK, CountersTypeOK, SocketsTypeOK,
         SeenTypeOK

(* The port is open or closed and has a name. *)
LEMMA SerialTypes ==
  ASSUME SerialTypeOK, [Next]_vars
  PROVE  SerialTypeOK'
  <1>1. CASE SetSerialStatus
    BY <1>1 DEF SetSerialStatus, OpenSerialPort, CloseSerialPort, SerialTypeOK
  <1>2. CASE SerialError
    BY <1>2 DEF SerialError, SerialTypeOK
  <1>3. CASE UNCHANGED <<port, portName>>
    BY <1>3 DEF SerialTypeOK
  <1> QED
    BY <1>1, <1>2, <1>3
       DEF Next, Continue, HandleRequest, vars, serialVars, ClientSends,
           ReadyRead, Disconnected, DeferredDelete, ReceiveSubscribe,
           ReceiveUnsubscribe, ReceiveGet, SerialStatus, SerialNameUse,
           SendOrder, UnmappedCommand, ReadEnds, WriteUpdate, WaitEnds,
           FanoutEnds, WriteToDeleted, TelemetryPacket, AbortPacket, AbortTick

(* What is true or false stays so. *)
LEMMA FlagsTypes ==
  ASSUME FlagsTypeOK, [Next]_vars
  PROVE  FlagsTypeOK'
  BY Zenon DEF FlagsTypeOK, Next, Continue, HandleRequest, vars, serialVars,
               radioVars, ClientSends, ReadyRead, Disconnected,
               DeferredDelete, Handles, ReceiveSubscribe, ReceiveUnsubscribe,
               ReceiveGet, SetSerialStatus, SerialStatus, SerialNameUse,
               SendOrder, UnmappedCommand, ReadEnds, WriteUpdate, WaitEnds,
               FanoutEnds, WriteToDeleted, TelemetryPacket, AbortPacket,
               AbortTick, SerialError

(* The counters keep to their bounds. *)
LEMMA CountersTypes ==
  ASSUME CountersTypeOK, [Next]_vars
  PROVE  CountersTypeOK'
  <1>1. CASE TelemetryPacket
    BY <1>1, CommandAssumption DEF TelemetryPacket, CountersTypeOK
  <1>2. CASE AbortTick
    BY <1>2 DEF AbortTick, CountersTypeOK
  <1>3. CASE UNCHANGED <<telemetry, abortParity>>
    BY <1>3 DEF CountersTypeOK
  <1> QED
    BY <1>1, <1>2, <1>3
       DEF Next, Continue, HandleRequest, vars, radioVars, ClientSends,
           ReadyRead, Disconnected, DeferredDelete, Handles, ReceiveSubscribe,
           ReceiveUnsubscribe, ReceiveGet, SetSerialStatus, SerialStatus,
           SerialNameUse, SendOrder, UnmappedCommand, ReadEnds, WriteUpdate,
           WaitEnds, FanoutEnds, WriteToDeleted, AbortPacket, SerialError

(* The lists hold sockets, the inboxes requests. *)
LEMMA SocketsTypes ==
  ASSUME TypeOK, [Next]_vars
  PROVE  SocketsTypeOK'
  <1> SocketsTypeOK
    BY TypeParts
  <1>1. ASSUME NEW s \in Sockets, NEW r \in Requests, ClientSends(s, r)
        PROVE  SocketsTypeOK'
    <2>1. inbox' \in [Sockets -> Seq(Requests)]
      BY <1>1 DEF ClientSends, SocketsTypeOK
    <2> QED BY <1>1, <2>1 DEF ClientSends, SocketsTypeOK
  <1>2. ASSUME NEW s \in Sockets, Disconnected(s) PROVE SocketsTypeOK'
    <2>1. inbox' \in [Sockets -> Seq(Requests)]
      BY <1>2 DEF Disconnected, SocketsTypeOK
    <2>2. subscribers' \in Seq(Sockets)
      BY <1>2, RemoveOneType DEF Disconnected, SocketsTypeOK
    <2> QED
      BY <1>2, <2>1, <2>2 DEF Disconnected, SocketsTypeOK
  <1>3. ASSUME NEW s \in Sockets, DeferredDelete(s) PROVE SocketsTypeOK'
    BY <1>3 DEF DeferredDelete, SocketsTypeOK
  <1>4. ASSUME HandleRequest PROVE SocketsTypeOK'
    <2>1. PICK r : Handles(r)
      BY <1>4 DEF HandleRequest, ReceiveSubscribe, ReceiveUnsubscribe,
                  ReceiveGet, SetSerialStatus, SerialStatus, SerialNameUse,
                  SendOrder, UnmappedCommand
    <2>2. Top.reader \in Sockets
      BY <2>1, TopTypes DEF Handles, Calls
    <2>3. inbox' \in [Sockets -> Seq(Requests)] /\ object' = object
      BY <2>1, <2>2 DEF Handles, SocketsTypeOK
    <2>4. CASE UNCHANGED subscribers
      BY <2>3, <2>4 DEF SocketsTypeOK
    <2>5. CASE ReceiveSubscribe
      <3>1. \/ subscribers' = subscribers
            \/ subscribers' = Append(subscribers, Top.reader)
        BY <2>5 DEF ReceiveSubscribe
      <3>2. subscribers \in Seq(Sockets)
        BY DEF SocketsTypeOK
      <3>3. Append(subscribers, Top.reader) \in Seq(Sockets)
        BY <2>2, <3>2, AppendProperties
      <3>4. subscribers' \in Seq(Sockets)
        BY <3>1, <3>2, <3>3, Zenon
      <3> QED BY <2>3, <3>4 DEF SocketsTypeOK
    <2>6. CASE ReceiveUnsubscribe
      <3>1. subscribers' \in Seq(Sockets)
        BY <2>6, RemoveOneType DEF ReceiveUnsubscribe, SocketsTypeOK
      <3> QED BY <2>3, <3>1 DEF SocketsTypeOK
    <2> QED
      BY <1>4, <2>4, <2>5, <2>6
         DEF HandleRequest, ReceiveGet, SetSerialStatus, SerialStatus,
             SerialNameUse, SendOrder, UnmappedCommand
  <1>5. CASE UNCHANGED socketVars
    BY <1>5 DEF socketVars, SocketsTypeOK
  <1> QED
    BY <1>1, <1>2, <1>3, <1>4, <1>5
       DEF Next, Continue, vars, ReadyRead, ReadEnds, WriteUpdate, WaitEnds,
           FanoutEnds, WriteToDeleted, TelemetryPacket, AbortPacket, AbortTick,
           SerialError

(* What a client has seen are values. *)
LEMMA SeenTypes ==
  ASSUME TypeOK, [Next]_vars
  PROVE  SeenTypeOK'
  <1> SeenTypeOK
    BY TypeParts
  <1>1. CASE WriteUpdate
    <2>1. Head(Top.todo) \in Sockets /\ Top.value \in Values
      BY <1>1, TopTypes DEF WriteUpdate, Calls
    <2>2. seen' = seen \/ seen' = [seen EXCEPT ![Head(Top.todo)][Top.field] =
                                                 Top.value]
      BY <1>1 DEF WriteUpdate
    <2> QED BY <2>1, <2>2 DEF SeenTypeOK
  <1>2. CASE UNCHANGED seen
    BY <1>2 DEF SeenTypeOK
  <1> QED
    BY <1>1, <1>2
       DEF Next, Continue, HandleRequest, vars, ClientSends, ReadyRead,
           Disconnected, DeferredDelete, Handles, ReceiveSubscribe,
           ReceiveUnsubscribe, ReceiveGet, SetSerialStatus, SerialStatus,
           SerialNameUse, SendOrder, UnmappedCommand, ReadEnds, WaitEnds,
           FanoutEnds, WriteToDeleted, TelemetryPacket, AbortPacket, AbortTick,
           SerialError

(* The clients are subscribed in the order given; nothing runs. *)
LEMMA InitTypes == Init => TypeOK
  <1> SUFFICES ASSUME Init PROVE TypeOK
    OBVIOUS
  <1>1. SerialTypeOK /\ FlagsTypeOK
    BY DEF Init, SerialTypeOK, FlagsTypeOK
  <1>2. CountersTypeOK
    BY CommandAssumption DEF Init, CountersTypeOK
  <1>3. subscribers \in Seq(Sockets)
    <2>1. Cardinality(Sockets) \in Nat
      BY CommandAssumption, FS_CardinalityType
    <2>2. SocketOrder \in [1 .. Cardinality(Sockets) -> Sockets]
      BY CommandAssumption
    <2> QED BY <2>1, <2>2 DEF Init
  <1>4. SocketsTypeOK
    BY <1>3 DEF Init, SocketsTypeOK
  <1>5. Text("none") \in Values /\ Packet(0) \in Values
    BY CommandAssumption DEF Values
  <1>6. SeenTypeOK
    BY <1>5 DEF Init, SeenTypeOK, UpdateFields
  <1>7. stack \in Seq(Calls)
    BY EmptySeq DEF Init
  <1> QED BY <1>1, <1>2, <1>4, <1>6, <1>7, TypeParts

(* A step keeps the types. *)
LEMMA TypesStep == TypeOK /\ [Next]_vars => TypeOK'
  <1> SUFFICES ASSUME TypeOK, [Next]_vars PROVE TypeOK'
    OBVIOUS
  <1>1. SerialTypeOK' /\ FlagsTypeOK' /\ CountersTypeOK'
    BY TypeParts, SerialTypes, FlagsTypes, CountersTypes
  <1>2. SocketsTypeOK' /\ SeenTypeOK'
    BY SocketsTypes, SeenTypes
  <1>3. stack' \in Seq(Calls')
    BY StackTypes, StackSteps
  <1> QED
    BY <1>1, <1>2, <1>3
       DEF TypeOK, SerialTypeOK, FlagsTypeOK, CountersTypeOK, SocketsTypeOK,
           SeenTypeOK

(* Type correctness of the server, its sockets and its call stack. *)
THEOREM CommandTypes == Spec => []TypeOK
  BY InitTypes, TypesStep, PTL DEF Spec
------------------------------------------------------------------------------
(* The call stack. *)

(* No two calls on the stack have the same reader: Qt does not emit the    *)
(* readyRead of a socket inside that of the same socket, and serial data   *)
(* arrives only in the event loop.                                         *)
OneCallEach ==
  \A i, j \in 1 .. Len(stack) : stack[i].reader = stack[j].reader => i = j

(* The calls of the stack that a step leaves are those that were there, in *)
(* their order, but for the first of it.                                   *)
LEMMA OneCallEachStep ==
  ASSUME TypeOK, OneCallEach, StackStep
  PROVE  OneCallEach'
  <1> stack \in Seq(Calls)
    BY DEF TypeOK
  <1>1. CASE Kept
    BY <1>1 DEF Kept, OneCallEach
  <1>2. CASE Popped
    <2>1. /\ Len(stack') = Len(stack) - 1
          /\ \A i \in 1 .. Len(stack) - 1 : stack'[i] = stack[i + 1]
      BY <1>2, TopTypes DEF Popped
    <2> QED BY <2>1, SMTT(30) DEF OneCallEach
  <1>3. CASE Pushed
    <2>1. PICK s \in Sockets \ Readers : stack' = <<Reading(s)>> \o stack
      BY <1>3 DEF Pushed
    <2>2. Reading(s) \in Calls /\ Reading(s).reader = s
      BY ValueTypes, CallTypes DEF Reading
    <2>3. /\ Len(stack') = Len(stack) + 1
          /\ stack'[1].reader = s
          /\ \A i \in 2 .. Len(stack) + 1 : stack'[i] = stack[i - 1]
      BY <2>1, <2>2, PushProperties
    <2>4. \A i \in 1 .. Len(stack) : stack[i].reader # s
      BY <2>1, CommandAssumption DEF Readers
    <2> QED BY <2>3, <2>4, SMTT(30) DEF OneCallEach
  <1>4. CASE Replaced
    <2>1. PICK call \in Calls :
            ~Idle /\ Replace(call) /\ call.reader = stack[1].reader
      BY <1>4, TopTypes DEF Replaced
    <2>2. /\ Len(stack') = Len(stack)
          /\ Len(stack) \in Nat \ {0}
          /\ stack'[1].reader = stack[1].reader
          /\ \A i \in 2 .. Len(stack) : stack'[i] = stack[i]
      BY <2>1, TopTypes, PushProperties DEF Replace
    <2>3. \A i \in 1 .. Len(stack') : stack'[i].reader = stack[i].reader
      BY <2>2
    <2> HIDE DEF OneCallEach
    <2> QED BY <2>2, <2>3 DEF OneCallEach
  <1>5. CASE Started
    <2>1. Len(stack') = 1
      BY <1>5 DEF Started
    <2> QED BY <2>1 DEF OneCallEach
  <1> QED BY <1>1, <1>2, <1>3, <1>4, <1>5 DEF StackStep

(* So there are as many calls as readers, at most. *)
LEMMA CallsAreReaders ==
  ASSUME TypeOK, OneCallEach
  PROVE  NestingBounded
  <1> DEFINE readers == Sockets \cup {NoSocket}
             reader == [i \in 1 .. Len(stack) |-> stack[i].reader]
  <1>1. Len(stack) \in Nat /\ \A i \in 1 .. Len(stack) : stack[i] \in Calls
    BY DEF TypeOK
  <1>2. reader \in Injection(1 .. Len(stack), readers)
    <2>1. reader \in [1 .. Len(stack) -> readers]
      BY <1>1 DEF Calls
    <2>2. IsInjective(reader)
      BY DEF OneCallEach, IsInjective
    <2> QED BY <2>1, <2>2 DEF Injection
  <1>3. /\ IsFiniteSet(readers)
        /\ Cardinality(readers) = Cardinality(Sockets) + 1
    BY CommandAssumption, FS_AddElement, FS_CardinalityType
  <1>4. Cardinality(1 .. Len(stack)) = Len(stack)
    <2>1. Len(stack) \in Int /\ 1 \in Int
      BY <1>1
    <2>2. Cardinality(1 .. Len(stack)) =
            IF 1 > Len(stack) THEN 0 ELSE Len(stack) - 1 + 1
      BY <2>1, FS_Interval
    <2> QED BY <1>1, <2>2
  <1> HIDE DEF reader, readers
  <1>5. Cardinality(1 .. Len(stack)) <= Cardinality(readers)
    BY <1>2, <1>3, FS_Injection
  <1> QED BY <1>3, <1>4, <1>5 DEF NestingBounded

(* OneCallEach is inductive. *)
LEMMA OneCallEachAlways == Spec => []OneCallEach
  <1>1. Init => OneCallEach
    BY DEF Init, OneCallEach
  <1>2. TypeOK /\ OneCallEach /\ [Next]_vars => OneCallEach'
    BY StackSteps, OneCallEachStep
  <1> QED BY <1>1, <1>2, CommandTypes, PTL DEF Spec

(* NestingBounded, for any number of clients and requests: requests cannot *)
(* pile up on the call stack of updateSubscriptions and readyRead.         *)
THEOREM CommandNesting == Spec => []NestingBounded
  <1>1. TypeOK /\ OneCallEach => NestingBounded
    BY CallsAreReaders
  <1> QED BY <1>1, OneCallEachAlways, CommandTypes, PTL

------------------------------------------------------------------------------
(* The subscriber lists. *)

(* Nobody is twice in a list. *)
OneEntryEach ==
  \A i, j \in 1 .. Len(subscribers) : subscribers[i] = subscribers[j] => i = j

(* Where the list changes. *)
LEMMA ListSteps ==
  ASSUME [Next]_vars
  PROVE  \/ ReceiveSubscribe \/ ReceiveUnsubscribe
         \/ \E s \in Sockets : Disconnected(s) \/ DeferredDelete(s)
         \/ UNCHANGED <<subscribers, object>>
  BY DEF Next, Continue, HandleRequest, vars, socketVars, ClientSends,
         ReadyRead, Handles, ReceiveGet, SetSerialStatus, SerialStatus,
         SerialNameUse, SendOrder, UnmappedCommand, ReadEnds, WriteUpdate,
         WaitEnds, FanoutEnds, WriteToDeleted, TelemetryPacket, AbortPacket,
         AbortTick, SerialError

(* contains() keeps a list without repetitions. *)
LEMMA AppendedOnce ==
  ASSUME TypeOK, OneEntryEach, ReceiveSubscribe
  PROVE  /\ OneEntryEach'
         /\ \A s \in Sockets : Listed(subscribers', s) =>
              Listed(subscribers, s) \/ s = Top.reader
  <1>1. CASE subscribers' = subscribers
    BY <1>1 DEF OneEntryEach
  <1>2. CASE /\ ~Listed(subscribers, Top.reader)
             /\ subscribers' = Append(subscribers, Top.reader)
    <2>1. subscribers \in Seq(Sockets) /\ Top.reader \in Sockets
      BY TopTypes DEF ReceiveSubscribe, Handles, Calls, TypeOK
    <2>2. /\ Len(subscribers') = Len(subscribers) + 1
          /\ Len(subscribers) \in Nat
          /\ DOMAIN subscribers = 1 .. Len(subscribers)
          /\ DOMAIN subscribers' = 1 .. Len(subscribers')
          /\ subscribers'[Len(subscribers) + 1] = Top.reader
          /\ \A i \in 1 .. Len(subscribers) : subscribers'[i] = subscribers[i]
      BY <1>2, <2>1, AppendProperties
    <2> QED BY <1>2, <2>2 DEF Listed, OneEntryEach
  <1> QED BY <1>1, <1>2 DEF ReceiveSubscribe

(* A step keeps the lists without repetitions, and only the reader of the  *)
(* innermost call can come to dangle.                                      *)
LEMMA DanglingStep ==
  ASSUME TypeOK, OneEntryEach, [Next]_vars
  PROVE  /\ OneEntryEach'
         /\ \A s \in Sockets : Dangling(s)' /\ ~Dangling(s) => s \in Readers
  <1> subscribers \in Seq(Sockets)
    BY DEF TypeOK
  <1>1. CASE ReceiveSubscribe
    <2>1. UNCHANGED object /\ ~Idle /\ Top.field = "read"
      BY <1>1 DEF ReceiveSubscribe, Handles
    <2>2. Top.reader \in Readers
      BY <2>1, TopTypes, CommandAssumption DEF Readers, Calls, TypeOK
    <2> QED BY <1>1, <2>1, <2>2, AppendedOnce DEF Dangling
  <1>2. CASE ReceiveUnsubscribe
    <2>1. UNCHANGED object /\ subscribers' = RemoveOne(subscribers, Top.reader)
      BY <1>2 DEF ReceiveUnsubscribe, Handles
    <2>2. OneEntryEach'
      BY <2>1, RemoveOneOnly DEF OneEntryEach
    <2>3. \A s \in Sockets : Listed(subscribers', s) => Listed(subscribers, s)
      BY <2>1, RemoveOneKeeps
    <2> QED BY <2>1, <2>2, <2>3 DEF Dangling
  <1>3. ASSUME NEW t \in Sockets, Disconnected(t)
        PROVE  /\ OneEntryEach'
               /\ \A s \in Sockets : ~(Dangling(s)' /\ ~Dangling(s))
    <2>1. subscribers' = RemoveOne(subscribers, t)
      BY <1>3 DEF Disconnected
    <2>2. OneEntryEach' /\ ~Listed(subscribers', t)
      BY <2>1, RemoveOneOnly DEF OneEntryEach
    <2>3. \A s \in Sockets : Listed(subscribers', s) => Listed(subscribers, s)
      BY <2>1, RemoveOneKeeps
    <2>4. \A s \in Sockets : s # t => object'[s] = object[s]
      BY <1>3 DEF Disconnected, TypeOK
    <2> QED BY <2>2, <2>3, <2>4 DEF Dangling
  <1>4. ASSUME NEW t \in Sockets, DeferredDelete(t)
        PROVE  /\ OneEntryEach'
               /\ \A s \in Sockets : ~(Dangling(s)' /\ ~Dangling(s))
    <2>1. UNCHANGED subscribers
      BY <1>4 DEF DeferredDelete
    <2>2. \A s \in Sockets : object'[s] # "live" => object[s] # "live"
      BY <1>4 DEF DeferredDelete, TypeOK
    <2> QED BY <2>1, <2>2 DEF Dangling, OneEntryEach
  <1>5. CASE UNCHANGED <<subscribers, object>>
    BY <1>5 DEF Dangling, OneEntryEach
  <1> QED BY <1>1, <1>2, <1>3, <1>4, <1>5, ListSteps

(* DanglingOnlyInOwnRead, for any number of clients: contains() keeps the  *)
(* lists without repetitions, so disconnected() leaves no entry, and only  *)
(* the rest of a read that it interrupted can add one again.               *)
THEOREM CommandDanglingOwnRead == Spec => DanglingOnlyInOwnRead
  <1>1. Init => OneEntryEach
    <2> SUFFICES ASSUME Init PROVE OneEntryEach
      OBVIOUS
    <2>1. Cardinality(Sockets) \in Nat
      BY CommandAssumption, FS_CardinalityType
    <2> QED BY <2>1, CommandAssumption DEF Init, OneEntryEach
  <1>2. TypeOK /\ OneEntryEach /\ [Next]_vars =>
          /\ OneEntryEach'
          /\ [\A s \in Sockets :
                 Dangling(s)' /\ ~Dangling(s) => s \in Readers]_vars
    BY DanglingStep
  <1> QED
    BY <1>1, <1>2, CommandTypes, PTL DEF Spec, DanglingOnlyInOwnRead
------------------------------------------------------------------------------
(* Telemetry. *)

(* A fan-out of telemetry has the latest packet, and nobody has seen a     *)
(* later one.                                                              *)
TelemetryIsLatest ==
  /\ \A i \in 1 .. Len(stack) :
       stack[i].field = "telemetry" => stack[i].value.number = telemetry
  /\ \A s \in Sockets : seen[s].telemetry.number <= telemetry

(* The first conjunct: telemetry begins a new stack, and no other call is  *)
(* one of telemetry.                                                       *)
LEMMA LatestOnStack ==
  ASSUME TypeOK, TelemetryIsLatest, StackStep
  PROVE  \A i \in 1 .. Len(stack') :
           stack'[i].field = "telemetry" => stack'[i].value.number = telemetry'
  <1> stack \in Seq(Calls)
    BY DEF TypeOK
  <1>1. CASE Kept /\ telemetry' = telemetry
    BY <1>1 DEF Kept, TelemetryIsLatest
  <1>2. CASE Popped /\ telemetry' = telemetry
    <2>1. /\ Len(stack') = Len(stack) - 1
          /\ \A i \in 1 .. Len(stack) - 1 : stack'[i] = stack[i + 1]
      BY <1>2, TopTypes DEF Popped
    <2> QED BY <1>2, <2>1 DEF TelemetryIsLatest
  <1>3. CASE Pushed /\ telemetry' = telemetry
    <2>1. PICK s \in Sockets \ Readers : stack' = <<Reading(s)>> \o stack
      BY <1>3 DEF Pushed
    <2>2. Reading(s) \in Calls /\ Reading(s).field = "read"
      BY ValueTypes, CallTypes DEF Reading
    <2>3. /\ Len(stack') = Len(stack) + 1
          /\ stack'[1].field = "read"
          /\ \A i \in 2 .. Len(stack) + 1 : stack'[i] = stack[i - 1]
      BY <2>1, <2>2, PushProperties
    <2> QED BY <1>3, <2>3 DEF TelemetryIsLatest
  <1>4. CASE Replaced /\ telemetry' = telemetry
    <2>1. PICK call \in Calls :
            /\ ~Idle /\ Replace(call)
            /\ call.field = "telemetry" =>
                 stack[1].field = "telemetry" /\ call.value = stack[1].value
      BY <1>4, TopTypes DEF Replaced
    <2>2. /\ Len(stack') = Len(stack)
          /\ Len(stack) \in Nat \ {0}
          /\ stack'[1] = call
          /\ \A i \in 2 .. Len(stack) : stack'[i] = stack[i]
      BY <2>1, TopTypes, PushProperties DEF Replace
    <2> QED BY <1>4, <2>1, <2>2 DEF TelemetryIsLatest
  <1>5. CASE Started
    BY <1>5 DEF Started, Fanout, Packet
  <1> QED BY <1>1, <1>2, <1>3, <1>4, <1>5 DEF StackStep

(* What a step writes to a client is from the first call of the stack.     *)
LEMMA SeenSteps ==
  ASSUME TypeOK, [Next]_vars
  PROVE  \/ seen' = seen
         \/ /\ ~Idle /\ WriteUpdate
            /\ seen' = [seen EXCEPT ![Head(Top.todo)][Top.field] = Top.value]
  <1>1. CASE WriteUpdate
    BY <1>1 DEF WriteUpdate
  <1>2. CASE UNCHANGED seen
    BY <1>2
  <1> QED
    BY <1>1, <1>2
       DEF Next, Continue, HandleRequest, vars, ClientSends, ReadyRead,
           Disconnected, DeferredDelete, Handles, ReceiveSubscribe,
           ReceiveUnsubscribe, ReceiveGet, SetSerialStatus, SerialStatus,
           SerialNameUse, SendOrder, UnmappedCommand, ReadEnds, WaitEnds,
           FanoutEnds, WriteToDeleted, TelemetryPacket, AbortPacket, AbortTick,
           SerialError

(* Where one field of one client is written, another keeps its value.      *)
LEMMA OneWrite ==
  ASSUME NEW before \in [Sockets -> [UpdateFields -> Values]], NEW after,
         NEW t, NEW field, NEW value,
         after = [before EXCEPT ![t][field] = value],
         NEW s \in Sockets, NEW other \in UpdateFields
  PROVE  \/ after[s][other] = before[s][other]
         \/ t = s /\ field = other /\ after[s][other] = value
  <1>1. before[s] \in [UpdateFields -> Values]
    OBVIOUS
  <1>2. CASE t = s
    <2>1. after[s] = [before[s] EXCEPT ![field] = value]
      BY <1>2
    <2> QED BY <1>1, <1>2, <2>1
  <1>3. CASE t # s
    BY <1>3
  <1> QED BY <1>2, <1>3

(* A step shows a client no older packet, and none later than the latest.  *)
LEMMA TelemetryStep ==
  ASSUME TypeOK, TelemetryIsLatest, [Next]_vars, NEW s \in Sockets
  PROVE  /\ seen'[s].telemetry.number >= seen[s].telemetry.number
         /\ seen'[s].telemetry.number <= telemetry'
  <1>1. /\ seen[s].telemetry.number \in Nat
        /\ telemetry \in Nat /\ telemetry' \in Nat
        /\ telemetry' >= telemetry
    <2>1. telemetry \in Nat
      BY CommandAssumption DEF TypeOK
    <2>2. telemetry' = telemetry \/ telemetry' = telemetry + 1
      BY DEF Next, Continue, HandleRequest, vars, radioVars, ClientSends,
             ReadyRead, Disconnected, DeferredDelete, Handles,
             ReceiveSubscribe, ReceiveUnsubscribe, ReceiveGet,
             SetSerialStatus, SerialStatus, SerialNameUse, SendOrder,
             UnmappedCommand, ReadEnds, WriteUpdate, WaitEnds, FanoutEnds,
             WriteToDeleted, TelemetryPacket, AbortPacket, AbortTick,
             SerialError
    <2>3. seen[s].telemetry \in Values
      BY DEF TypeOK, UpdateFields
    <2>4. seen[s].telemetry.number \in Nat
      BY <2>3, CommandAssumption DEF Values, Text, Packet
    <2> QED BY <2>1, <2>2, <2>4
  <1>2. CASE seen' = seen
    BY <1>1, <1>2 DEF TelemetryIsLatest
  <1>3. CASE /\ ~Idle /\ WriteUpdate
             /\ seen' = [seen EXCEPT ![Head(Top.todo)][Top.field] = Top.value]
    <2>1. telemetry' = telemetry
      BY <1>3 DEF WriteUpdate, radioVars
    <2>2. \/ seen'[s]["telemetry"] = seen[s]["telemetry"]
          \/ Top.field = "telemetry" /\ seen'[s]["telemetry"] = Top.value
      <3>1. /\ seen \in [Sockets -> [UpdateFields -> Values]]
            /\ "telemetry" \in UpdateFields
        BY DEF TypeOK, UpdateFields
      <3>2. seen' = [seen EXCEPT ![Head(Top.todo)][Top.field] = Top.value]
        BY <1>3
      <3> QED BY <3>1, <3>2, OneWrite
    <2>3. Top.field = "telemetry" => Top.value.number = telemetry
      BY <1>3, TopTypes DEF TelemetryIsLatest
    <2> QED BY <1>1, <2>1, <2>2, <2>3 DEF TelemetryIsLatest
  <1> QED BY <1>2, <1>3, SeenSteps

(* TelemetryIsLatest is inductive. *)
LEMMA LatestAlways == Spec => []TelemetryIsLatest
  <1>1. Init => TelemetryIsLatest
    BY CommandAssumption DEF Init, TelemetryIsLatest, Packet
  <1>2. TypeOK /\ TelemetryIsLatest /\ [Next]_vars => TelemetryIsLatest'
    <2> SUFFICES ASSUME TypeOK, TelemetryIsLatest, [Next]_vars
                 PROVE  TelemetryIsLatest'
      OBVIOUS
    <2>1. \A i \in 1 .. Len(stack') :
            stack'[i].field = "telemetry" => stack'[i].value.number = telemetry'
      BY LatestOnStack, StackSteps
    <2>2. \A s \in Sockets : seen'[s].telemetry.number <= telemetry'
      BY TelemetryStep
    <2> QED BY <2>1, <2>2 DEF TelemetryIsLatest
  <1> QED BY <1>1, <1>2, CommandTypes, PTL DEF Spec

(* TelemetryInOrder: fan-outs may nest, but that of telemetry is always    *)
(* the outermost, so no client sees an older packet after a newer one.     *)
THEOREM CommandTelemetry == Spec => TelemetryInOrder
  <1>1. TypeOK /\ TelemetryIsLatest /\ [Next]_vars
          => [\A s \in Sockets :
                seen'[s].telemetry.number >= seen[s].telemetry.number]_vars
    BY TelemetryStep
  <1> QED BY <1>1, LatestAlways, CommandTypes, PTL DEF Spec, TelemetryInOrder
------------------------------------------------------------------------------
(* The status of the port, for a single client. *)

OneClient == \A s, t \in Sockets : s = t

(* An unfinished fan-out of the status has that of the port. *)
StatusOnStack ==
  \A i \in 1 .. Len(stack) :
    stack[i].field = "status" => stack[i].value = Text(port)

(* The innermost call has still to write the status to s. *)
StatusPending(s) ==
  /\ ~Idle
  /\ Top.field = "status"
  /\ \E i \in 1 .. Len(Top.todo) : /\ Top.todo[i] = s
                                   /\ i = 1 => ~Top.waiting

(* A connected subscriber has seen the status of the port or is about to. *)
StatusReaches ==
  running /\ ~unreported =>
    \A s \in Sockets : object[s] = "live" /\ Listed(subscribers, s) =>
      seen[s]["status"] = Text(port) \/ StatusPending(s)

(* Under the call of the client there is only the fan-out of telemetry.    *)
LEMMA OneReader ==
  ASSUME OneClient, TypeOK, OneCallEach, ~Idle, Top.reader # NoSocket
  PROVE  \A i \in 2 .. Len(stack) : stack[i].field = "telemetry"
  <1>1. /\ Len(stack) \in Nat /\ 1 \in 1 .. Len(stack)
        /\ \A i \in 1 .. Len(stack) : stack[i] \in Calls
        /\ Top = stack[1]
    BY TopTypes DEF TypeOK
  <1>2. ASSUME NEW i \in 2 .. Len(stack) PROVE stack[i].field = "telemetry"
    <2>1. i \in 1 .. Len(stack) /\ i # 1
      BY <1>1
    <2>2. stack[i].reader # stack[1].reader
      BY <1>1, <2>1 DEF OneCallEach
    <2>3. stack[i] \in Calls /\ stack[1] \in Calls
      BY <1>1, <2>1
    <2>4. stack[1].reader \in Sockets
      BY <1>1, <2>3 DEF Calls
    <2>5. stack[i].reader = NoSocket
      BY <2>2, <2>3, <2>4 DEF OneClient, Calls
    <2> QED BY <2>3, <2>5 DEF Calls
  <1> QED BY <1>2

(* Only a command changes the port while something is on the stack, and    *)
(* its fan-out is then the only one that is not of telemetry.              *)
LEMMA StatusOnStackStep ==
  ASSUME OneClient, TypeOK, OneCallEach, StatusOnStack, [Next]_vars
  PROVE  StatusOnStack'
  <1> stack \in Seq(Calls)
    BY DEF TypeOK
  <1>1. CASE SetSerialStatus
    <2> DEFINE call == Fanout(Top.reader, "status", Text(port'))
    <2>1. /\ ~Idle /\ Top.field = "read" /\ stack' = <<call>> \o Tail(stack)
          /\ call.value = Text(port')
      BY <1>1 DEF SetSerialStatus, Handles, Replace, Fanout
    <2>2. Top.reader \in Sockets /\ Top.reader # NoSocket
      BY <2>1, TopTypes, CommandAssumption DEF Calls
    <2>3. Text(port') \in Values
      BY <1>1 DEF SetSerialStatus, OpenSerialPort, CloseSerialPort, TypeOK,
                  Values
    <2>4. call \in Calls
      BY <2>2, <2>3, CallTypes
    <2> HIDE DEF call
    <2>5. /\ Len(stack') = Len(stack)
          /\ Len(stack) \in Nat \ {0}
          /\ stack'[1] = call
          /\ \A i \in 2 .. Len(stack) : stack'[i] = stack[i]
      BY <2>1, <2>4, TopTypes, PushProperties
    <2>6. \A i \in 2 .. Len(stack) : stack[i].field = "telemetry"
      BY <2>1, <2>2, OneReader
    <2> QED BY <2>1, <2>5, <2>6 DEF StatusOnStack
  <1>2. CASE SerialError
    <2>1. Len(stack') = 0
      BY <1>2 DEF SerialError, Idle
    <2> QED BY <2>1 DEF StatusOnStack
  <1>3. CASE port' = port
    <2>1. CASE Kept
      BY <1>3, <2>1 DEF Kept, StatusOnStack
    <2>2. CASE Popped
      <3>1. /\ Len(stack') = Len(stack) - 1
            /\ \A i \in 1 .. Len(stack) - 1 : stack'[i] = stack[i + 1]
        BY <2>2, TopTypes DEF Popped
      <3> QED BY <1>3, <3>1 DEF StatusOnStack
    <2>3. CASE Pushed
      <3>1. PICK s \in Sockets \ Readers : stack' = <<Reading(s)>> \o stack
        BY <2>3 DEF Pushed
      <3>2. Reading(s) \in Calls /\ Reading(s).field = "read"
        BY ValueTypes, CallTypes DEF Reading
      <3>3. /\ Len(stack') = Len(stack) + 1
            /\ stack'[1].field = "read"
            /\ \A i \in 2 .. Len(stack) + 1 : stack'[i] = stack[i - 1]
        BY <3>1, <3>2, PushProperties
      <3> QED BY <1>3, <3>3 DEF StatusOnStack
    <2>4. CASE Replaced
      <3>1. PICK call \in Calls :
              /\ ~Idle /\ Replace(call)
              /\ call.field = "status" =>
                   \/ call.value = Text(port')
                   \/ Top.field = "status" /\ call.value = Top.value
        BY <2>4 DEF Replaced
      <3>2. /\ Len(stack') = Len(stack)
            /\ Len(stack) \in Nat \ {0}
            /\ Top = stack[1]
            /\ stack'[1] = call
            /\ \A i \in 2 .. Len(stack) : stack'[i] = stack[i]
        BY <3>1, TopTypes, PushProperties DEF Replace
      <3>3. call.field = "status" => call.value = Text(port')
        BY <1>3, <3>1, <3>2 DEF StatusOnStack
      <3> QED BY <1>3, <3>2, <3>3 DEF StatusOnStack
    <2>5. CASE Started
      <3>1. Len(stack') = 1 /\ stack'[1].field = "telemetry"
        BY <2>5 DEF Started, Fanout
      <3> QED BY <3>1 DEF StatusOnStack
    <2> QED BY <2>1, <2>2, <2>3, <2>4, <2>5, StackSteps DEF StackStep
  <1> QED
    BY <1>1, <1>2, <1>3
       DEF Next, Continue, HandleRequest, vars, serialVars, ClientSends,
           ReadyRead, Disconnected, DeferredDelete, ReceiveSubscribe,
           ReceiveUnsubscribe, ReceiveGet, SerialStatus, SerialNameUse,
           SendOrder, UnmappedCommand, ReadEnds, WriteUpdate, WaitEnds,
           FanoutEnds, WriteToDeleted, TelemetryPacket, AbortPacket, AbortTick

(* A client on a list after a step that leaves nobody to tell was there    *)
(* before it.                                                              *)
LEMMA NobodyNew ==
  ASSUME TypeOK, [Next]_vars, ~unreported', NEW s \in Sockets,
         Listed(subscribers', s)
  PROVE  Listed(subscribers, s)
  <1>1. CASE ReceiveSubscribe
    BY <1>1 DEF ReceiveSubscribe
  <1>2. CASE ReceiveUnsubscribe
    BY <1>2, RemoveOneKeeps DEF ReceiveUnsubscribe, TypeOK
  <1>3. ASSUME NEW t \in Sockets, Disconnected(t)
        PROVE  Listed(subscribers, s)
    BY <1>3, RemoveOneKeeps DEF Disconnected, TypeOK
  <1>4. CASE UNCHANGED subscribers
    BY <1>4
  <1> QED
    BY <1>1, <1>2, <1>3, <1>4
       DEF Next, Continue, HandleRequest, vars, socketVars, ClientSends,
           ReadyRead, DeferredDelete, ReceiveGet, SetSerialStatus,
           SerialStatus, SerialNameUse, SendOrder, UnmappedCommand, ReadEnds,
           WriteUpdate, WaitEnds, FanoutEnds, WriteToDeleted,
           TelemetryPacket, AbortPacket, AbortTick, SerialError

(* A client that the innermost call still has to reach is its reader's.    *)
LEMMA PendingReads ==
  ASSUME OneClient, TypeOK, NEW s \in Sockets, StatusPending(s)
  PROVE  s \in Readers
  <1>1. ~Idle /\ Top.field = "status"
    BY DEF StatusPending
  <1>2. Top.reader \in Sockets
    BY <1>1, TopTypes DEF Calls
  <1>3. Top = stack[1] /\ 1 \in DOMAIN stack
    BY <1>1, TopTypes DEF TypeOK
  <1> QED BY <1>2, <1>3, CommandAssumption DEF OneClient, Readers

(* The fan-out that reports the port is pending for every subscriber.      *)
LEMMA ReportPends ==
  ASSUME TypeOK, NEW s \in Sockets, Listed(subscribers, s), NEW text,
         ~Idle, Top.field = "read",
         Replace(Fanout(Top.reader, "status", text))
  PROVE  StatusPending(s)'
  <1> DEFINE call == Fanout(Top.reader, "status", text)
  <1>1. stack' = <<call>> \o Tail(stack) /\ Tail(stack) \in Seq(Calls)
    BY TopTypes DEF Replace
  <1>2. /\ call.field = "status" /\ call.todo = subscribers
        /\ call.waiting = FALSE
    BY DEF Fanout
  <1> HIDE DEF call
  <1>3. stack' # <<>> /\ Head(stack') = call
    BY <1>1
  <1>4. PICK i \in 1 .. Len(subscribers) : subscribers[i] = s
    BY DEF Listed, TypeOK
  <1> QED BY <1>2, <1>3, <1>4 DEF StatusPending, Idle, Top

(* A step of the fan-out writes the status of the port to the client, or   *)
(* leaves it for later.                                                    *)
LEMMA StatusReachesStep ==
  ASSUME OneClient, TypeOK, StatusOnStack, StatusReaches, [Next]_vars
  PROVE  StatusReaches'
  <1> SUFFICES ASSUME running', ~unreported', NEW s \in Sockets,
                      object'[s] = "live", Listed(subscribers', s)
               PROVE  seen'[s]["status"] = Text(port)' \/ StatusPending(s)'
    BY DEF StatusReaches
  <1> Listed(subscribers, s)
    BY NobodyNew
  <1>1. object[s] = "live"
    <2>1. ASSUME NEW t \in Sockets, Disconnected(t) \/ DeferredDelete(t)
          PROVE  FALSE
      BY <2>1 DEF Disconnected, DeferredDelete, TypeOK,
                  OneClient
    <2> QED
      BY <2>1
         DEF Next, Continue, HandleRequest, vars, socketVars, ClientSends,
             ReadyRead, Handles, ReceiveSubscribe, ReceiveUnsubscribe,
             ReceiveGet, SetSerialStatus, SerialStatus, SerialNameUse,
             SendOrder, UnmappedCommand, ReadEnds, WriteUpdate, WaitEnds,
             FanoutEnds, WriteToDeleted, TelemetryPacket, AbortPacket,
             AbortTick, SerialError
  <1>2. CASE SetSerialStatus
    BY <1>1, <1>2, ReportPends DEF SetSerialStatus, Handles
  <1>3. CASE SerialStatus
    BY <1>1, <1>3, ReportPends DEF SerialStatus, Handles
  <1>4. CASE /\ ~StatusPending(s)
             /\ UNCHANGED <<running, port, unreported, seen>>
    BY <1>1, <1>4 DEF StatusReaches, Text
  <1>5. CASE /\ StatusPending(s) /\ stack' = stack
             /\ UNCHANGED <<running, port, unreported, seen>>
    BY <1>5 DEF StatusPending, Idle, Top
  <1>6. CASE WriteUpdate
    <2>1. /\ running /\ ~unreported /\ port' = port
          /\ ~Idle /\ Top.todo # <<>> /\ ~Top.waiting
      BY <1>6 DEF WriteUpdate, serialVars
    <2>2. Head(Top.todo) = s
      BY <2>1, TopTypes DEF OneClient, Calls
    <2>3. seen' = [seen EXCEPT ![s][Top.field] = Top.value]
      BY <1>1, <1>6, <2>2 DEF WriteUpdate
    <2>4. seen \in [Sockets -> [UpdateFields -> Values]]
            /\ "status" \in UpdateFields
      BY DEF TypeOK, UpdateFields
    <2>5. CASE Top.field = "status"
      <3>1. Top.value = Text(port)
        BY <2>1, <2>5, TopTypes DEF StatusOnStack
      <3>2. seen[s] \in [UpdateFields -> Values]
        BY <2>4
      <3>3. seen'[s]["status"] = Text(port)
        BY <2>3, <2>4, <2>5, <3>1, <3>2
      <3> QED BY <2>1, <3>3 DEF Text
    <2>6. CASE Top.field # "status"
      <3>1. seen'[s]["status"] = seen[s]["status"]
        BY <2>3, <2>4, <2>6, OneWrite
      <3>2. ~StatusPending(s)
        BY <2>6 DEF StatusPending
      <3> QED BY <1>1, <2>1, <3>1, <3>2 DEF StatusReaches, Text
    <2> QED BY <2>5, <2>6
  <1>7. CASE WaitEnds /\ StatusPending(s)
    <2> DEFINE call == [Top EXCEPT !.waiting = FALSE, !.todo = Tail(@)]
    <2>1. ~Idle /\ Top.waiting /\ stack' = <<call>> \o Tail(stack)
      BY <1>7 DEF WaitEnds, Replace
    <2>2. Top \in Calls /\ Tail(stack) \in Seq(Calls)
      BY <2>1, TopTypes
    <2>3. /\ Top.todo \in Seq(Sockets) /\ Top.todo # <<>>
          /\ call.field = Top.field /\ call.todo = Tail(Top.todo)
          /\ call.waiting = FALSE
      BY <2>1, <2>2 DEF Calls
    <2>4. PICK i \in 1 .. Len(Top.todo) : Top.todo[i] = s /\ i # 1
      BY <1>7, <2>1 DEF StatusPending
    <2>5. /\ i - 1 \in 1 .. Len(Tail(Top.todo))
          /\ Tail(Top.todo)[i - 1] = s
      BY <2>3, <2>4
    <2> HIDE DEF call
    <2>6. stack' # <<>> /\ Head(stack') = call
      BY <2>1, <2>2
    <2>7. Top.field = "status"
      BY <1>7 DEF StatusPending
    <2> QED BY <2>3, <2>5, <2>6, <2>7 DEF StatusPending, Idle, Top
  <1>8. ASSUME NEW t \in Sockets, ReadyRead(t) PROVE ~StatusPending(s)
    BY <1>8, PendingReads DEF ReadyRead, OneClient
  <1>9. CASE ReadEnds \/ SerialNameUse
    <2>1. ~StatusPending(s)
      BY <1>9 DEF ReadEnds, SerialNameUse, Handles, StatusPending
    <2> QED
      BY <1>4, <1>9, <2>1 DEF ReadEnds, SerialNameUse, Handles, serialVars
  <1>10. CASE FanoutEnds
    <2>1. ~StatusPending(s)
      BY <1>10 DEF FanoutEnds, StatusPending
    <2> QED BY <1>4, <1>10, <2>1 DEF FanoutEnds, serialVars
  <1>11. CASE TelemetryPacket
    <2>1. ~StatusPending(s)
      BY <1>11 DEF TelemetryPacket, DecodesPacket, StatusPending
    <2> QED BY <1>4, <1>11, <2>1 DEF TelemetryPacket, serialVars
  <1>12. CASE WaitEnds
    BY <1>4, <1>7, <1>12 DEF WaitEnds, serialVars
  <1>13. ASSUME NEW t \in Sockets, ReadyRead(t)
         PROVE  seen'[s]["status"] = Text(port)' \/ StatusPending(s)'
    BY <1>4, <1>8, <1>13 DEF ReadyRead, serialVars
  <1>14. CASE UNCHANGED <<running, port, unreported, seen, stack>>
    BY <1>4, <1>5, <1>14
  <1>15. CASE ReceiveSubscribe \/ ReceiveUnsubscribe
    BY <1>14, <1>15 DEF ReceiveSubscribe, ReceiveUnsubscribe, Handles,
                        serialVars
  <1> QED
    BY <1>2, <1>3, <1>6, <1>9, <1>10, <1>11, <1>12, <1>13, <1>14, <1>15
       DEF Next, Continue, HandleRequest, vars, serialVars, ClientSends,
           Disconnected, DeferredDelete, Handles, ReceiveGet, SendOrder,
           UnmappedCommand, WriteToDeleted, AbortPacket, AbortTick, SerialError

(* Nothing is pending between two events, so the status seen is the port's.*)
THEOREM CommandStatus == ASSUME OneClient PROVE Spec => []StatusAgrees
  <1> DEFINE StatusInv == StatusOnStack /\ StatusReaches
  <1>1. Init => StatusInv
    BY DEF Init, StatusOnStack, StatusReaches
  <1>2. TypeOK /\ OneCallEach /\ StatusInv /\ [Next]_vars => StatusInv'
    BY StatusOnStackStep, StatusReachesStep
  <1>3. StatusInv => StatusAgrees
    BY DEF StatusReaches, StatusPending, StatusAgrees
  <1> QED
    BY <1>1, <1>2, <1>3, CommandTypes, OneCallEachAlways, PTL DEF Spec
=============================================================================
