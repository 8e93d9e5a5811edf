---------------------------- MODULE CommandServer ----------------------------
(***************************************************************************)
(* Server/src/server.cpp: commands, the serial port and the fan-out of     *)
(* updates.  The server has one thread and one event loop, but             *)
(* updateSubscriptions calls waitForBytesWritten on every subscriber, and  *)
(* while Qt waits on a socket it also reads from it: the slots readyRead   *)
(* and disconnected of that socket run in the middle of the fan-out.  (Not *)
(* recursively: a socket whose readyRead is running does not emit another  *)
(* one.)  So the server is a stack of unfinished calls, and events of the  *)
(* loop (serial data, timers, deleteLater) wait until it is empty.         *)
(*                                                                         *)
(* Fields: SERIAL_STATUS, SERIAL_NAME_USE and one telemetry field, with    *)
(* the same subscribers: at the start, everybody.  A client subscribes and *)
(* unsubscribes to the three together.                                     *)
(***************************************************************************)
EXTENDS Naturals, Sequences, FiniteSets

CONSTANTS
  Sockets,         \* the clients' sockets
  SocketOrder,     \* the order in which they subscribed
  NoSocket,        \* the reader of a fan-out that serial data started
  Requests,        \* what the clients of the instance ask for
  MaxUnread,       \* bound: requests received and not yet handled
  MaxTelemetry,    \* bound: telemetry packets that are fanned out
  MaxDisconnects   \* bound: connections that break

ASSUME CommandAssumption ==
  /\ NoSocket \notin Sockets
  /\ IsFiniteSet(Sockets)
  /\ SocketOrder \in [1..Cardinality(Sockets) -> Sockets]
  /\ \A s \in Sockets : \E i \in DOMAIN SocketOrder : SocketOrder[i] = s
  /\ \A i, j \in DOMAIN SocketOrder : SocketOrder[i] = SocketOrder[j] => i = j
  /\ Requests \subseteq {"open", "close", "status", "name", "order",
                         "unmapped", "subscribe", "unsubscribe", "get"}
  /\ {MaxUnread, MaxTelemetry, MaxDisconnects} \subseteq Nat

VARIABLES
  running,      \* the process runs
  port,         \* "open" or "close": serialPort->isOpen()
  portName,     \* "tty" or "-": serialPort->portName()
  unreported,   \* the port changed for another reason than a command, or
                \* somebody has subscribed since: not all were told its status
  subscribers,  \* the sockets in the subscriber lists, in order
  object,       \* object[s]: "live", "closed" (deleteLater pending), "deleted"
  inbox,        \* inbox[s]: requests received, not yet handled
  stack,        \* the unfinished calls, innermost first
  seen,         \* seen[s][field]: the last update written to s
  telemetry,    \* number of the latest telemetry packet
  abort_initiated,  \* the timer that repeats the abort command exists
  abortParity   \* parity of the number of abort commands transmitted

serialVars == <<port, portName, unreported>>
socketVars == <<subscribers, object, inbox>>
radioVars == <<telemetry, abort_initiated, abortParity>>

vars == <<running, serialVars, socketVars, stack, seen, radioVars>>

UpdateFields == {"status", "name", "telemetry"}

(* The value of an update: a text, or the number of a telemetry packet. *)
Text(v) == [text |-> v, number |-> 0]
Packet(n) == [text |-> "packet", number |-> n]
Values == {Text(v) : v \in {"none", "open", "close", "tty", "-"}}
            \cup {Packet(n) : n \in 0..MaxTelemetry}

(* An unfinished call: the socket whose readyRead it belongs to, the field *)
(* it fans out ("read": readyRead between two requests) with its value,    *)
(* the sockets it has not finished with, and whether it waits on the first.*)
(* Serial data is fanned out in no readyRead.                              *)
Calls ==
  {call \in [reader : Sockets \cup {NoSocket},
             field : UpdateFields \cup {"read"}, value : Values,
             todo : Seq(Sockets), waiting : BOOLEAN] :
     /\ call.waiting => call.todo # <<>>
     /\ call.reader = NoSocket <=> call.field = "telemetry"}

TypeOK ==
  /\ running \in BOOLEAN
  /\ port \in {"open", "close"}
  /\ portName \in {"tty", "-"}
  /\ unreported \in BOOLEAN
  /\ subscribers \in Seq(Sockets)
  /\ object \in [Sockets -> {"live", "closed", "deleted"}]
  /\ inbox \in [Sockets -> Seq(Requests)]
  /\ stack \in Seq(Calls)
  /\ seen \in [Sockets -> [UpdateFields -> Values]]
  /\ telemetry \in 0..MaxTelemetry
  /\ abort_initiated \in BOOLEAN
  /\ abortParity \in {0, 1}

(* The constructor tries to open the serial port. *)
Init ==
  /\ running = TRUE
  /\ \/ port = "open" /\ portName = "tty"
     \/ port = "close" /\ portName = "-"
  /\ unreported = TRUE
  /\ subscribers = SocketOrder
  /\ object = [s \in Sockets |-> "live"]
  /\ inbox = [s \in Sockets |-> <<>>]
  /\ stack = <<>>
  /\ seen = [s \in Sockets |-> [status |-> Text("none"), name |-> Text("none"),
                                telemetry |-> Packet(0)]]
  /\ telemetry = 0
  /\ abort_initiated = FALSE
  /\ abortParity = 0

Idle == stack = <<>>
Top == Head(stack)
Replace(call) == stack' = <<call>> \o Tail(stack)

Reading(s) == [reader |-> s, field |-> "read", value |-> Text("none"),
               todo |-> <<>>, waiting |-> FALSE]

(* updateSubscriptions copies the list of the field before it loops. *)
Fanout(reader, field, value) ==
  [reader |-> reader, field |-> field, value |-> value,
   todo |-> subscribers, waiting |-> FALSE]

(* Sockets whose readyRead is running. *)
Readers == {stack[i].reader : i \in DOMAIN stack} \ {NoSocket}

(* Qt delivers what happens to s from the event loop when nothing runs, or *)
(* while it waits for s to take its bytes.                                 *)
Attends(s) ==
  \/ Idle
  \/ ~Idle /\ Top.waiting /\ Head(Top.todo) = s

-----------------------------------------------------------------------------
(* readyRead *)

(* What the clients have sent and readyRead has not read. *)
Unread == UNION {{s} \X DOMAIN inbox[s] : s \in Sockets}

ClientSends(s, r) ==
  /\ Cardinality(Unread) < MaxUnread
  /\ object[s] = "live"
  /\ inbox' = [inbox EXCEPT ![s] = Append(@, r)]
  /\ UNCHANGED <<running, serialVars, subscribers, object, stack, seen,
                 radioVars>>

(* Mutant of ReadyRead: the slot runs recursively. *)
ReadyReadAgain(s) ==
  /\ running
  /\ object[s] = "live"
  /\ Attends(s)
  /\ inbox[s] # <<>>
  /\ stack' = <<Reading(s)>> \o stack
  /\ UNCHANGED <<running, serialVars, socketVars, seen, radioVars>>

ReadyRead(s) ==
  /\ running
  /\ object[s] = "live"
  /\ Attends(s)
  /\ s \notin Readers
  /\ inbox[s] # <<>>
  /\ stack' = <<Reading(s)>> \o stack
  /\ UNCHANGED <<running, serialVars, socketVars, seen, radioVars>>

(* The loops of readyRead go on to the next request, whatever happened to  *)
(* the connection while the previous one was handled.                      *)
Handles(r) ==
  /\ ~Idle
  /\ Top.field = "read"
  /\ inbox[Top.reader] # <<>>
  /\ Head(inbox[Top.reader]) = r
  /\ inbox' = [inbox EXCEPT ![Top.reader] = Tail(@)]
  /\ UNCHANGED <<object, seen, radioVars>>

ReadEnds ==
  /\ ~Idle
  /\ Top.field = "read"
  /\ inbox[Top.reader] = <<>>
  /\ stack' = Tail(stack)
  /\ UNCHANGED <<running, serialVars, socketVars, seen, radioVars>>

Listed(list, s) == \E i \in DOMAIN list : list[i] = s

(* Mutant of ReceiveSubscribe: contains() is not asked. *)
ReceiveSubscribeAgain ==
  /\ Handles("subscribe")
  /\ subscribers' = Append(subscribers, Top.reader)
  /\ unreported' = TRUE
  /\ UNCHANGED <<running, port, portName, stack>>

(* A new subscriber is told nothing until the next update. *)
ReceiveSubscribe ==
  /\ Handles("subscribe")
  /\ \/ /\ Listed(subscribers, Top.reader)
        /\ UNCHANGED <<subscribers, unreported>>
     \/ /\ ~Listed(subscribers, Top.reader)
        /\ subscribers' = Append(subscribers, Top.reader)
        /\ unreported' = TRUE
  /\ UNCHANGED <<running, port, portName, stack>>

(* QList::removeOne: what comes after the first s moves up. *)
RemoveOne(list, s) ==
  IF ~Listed(list, s) THEN list
  ELSE [i \in 1 .. Len(list) - 1 |->
          IF \E j \in 1 .. i : list[j] = s THEN list[i + 1] ELSE list[i]]

ReceiveUnsubscribe ==
  /\ Handles("unsubscribe")
  /\ subscribers' = RemoveOne(subscribers, Top.reader)
  /\ UNCHANGED <<running, serialVars, stack>>

(* receiveGet throws std::logic_error, and nothing catches it. *)
ReceiveGet ==
  /\ Handles("get")
  /\ running' = FALSE
  /\ stack' = <<>>
  /\ UNCHANGED <<serialVars, subscribers>>

-----------------------------------------------------------------------------
(* handleCommand *)

(* openSerialPort returns early when the port is open; the name becomes    *)
(* "-" when no port could be opened.                                       *)
OpenSerialPort ==
  \/ port = "open" /\ UNCHANGED <<port, portName>>
  \/ port = "close" /\ port' = "open" /\ portName' = "tty"
  \/ port = "close" /\ port' = "close" /\ portName' = "-"

(* Mutant of CloseSerialPort: the name is cleared, to no known value. *)
CloseSerialPortNameless == port' = "close" /\ portName' = "none"

CloseSerialPort == port' = "close" /\ UNCHANGED portName

(* Mutant of SetSerialStatus: the status is taken before the command. *)
SetSerialStatusEarly ==
  /\ \/ Handles("open") /\ OpenSerialPort
     \/ Handles("close") /\ CloseSerialPort
  /\ Replace(Fanout(Top.reader, "status", Text(port)))
  /\ unreported' = FALSE
  /\ UNCHANGED <<running, subscribers>>

(* GUI_CMD_SET_SERIAL_STATUS falls through to SERIAL_STATUS. *)
SetSerialStatus ==
  /\ \/ Handles("open") /\ OpenSerialPort
     \/ Handles("close") /\ CloseSerialPort
  /\ Replace(Fanout(Top.reader, "status", Text(port')))
  /\ unreported' = FALSE
  /\ UNCHANGED <<running, subscribers>>

SerialStatus ==
  /\ Handles("status")
  /\ Replace(Fanout(Top.reader, "status", Text(port)))
  /\ unreported' = FALSE
  /\ UNCHANGED <<running, port, portName, subscribers>>

SerialNameUse ==
  /\ Handles("name")
  /\ Replace(Fanout(Top.reader, "name", Text(portName)))
  /\ UNCHANGED <<running, serialVars, subscribers>>

(* Any other command: built, recorded (module DataStorage) and given to    *)
(* the serial port; nothing of this module changes.                        *)
SendOrder ==
  /\ Handles("order")
  /\ UNCHANGED <<running, serialVars, subscribers, stack>>

(* createUplinkPacketFromRequest throws for a field without a command, and *)
(* nothing catches it.                                                     *)
UnmappedCommand ==
  /\ Handles("unmapped")
  /\ running' = FALSE
  /\ stack' = <<>>
  /\ UNCHANGED <<serialVars, subscribers>>

-----------------------------------------------------------------------------
(* updateSubscriptions *)

(* One socket of the fan-out: the write reaches it while it is connected.  *)
WriteUpdate ==
  /\ ~Idle
  /\ ~Top.waiting
  /\ Top.todo # <<>>
  /\ LET s == Head(Top.todo) IN
     seen' = IF object[s] = "live"
             THEN [seen EXCEPT ![s][Top.field] = Top.value] ELSE seen
  /\ Replace([Top EXCEPT !.waiting = TRUE])
  /\ UNCHANGED <<running, serialVars, socketVars, radioVars>>

(* A write through a deleted object: if the process does not ignore it, as *)
(* WriteUpdate has it, it dies.                                            *)
WriteToDeleted ==
  /\ ~Idle
  /\ ~Top.waiting
  /\ Top.todo # <<>>
  /\ object[Head(Top.todo)] = "deleted"
  /\ running' = FALSE
  /\ stack' = <<>>
  /\ UNCHANGED <<serialVars, socketVars, seen, radioVars>>


(* waitForBytesWritten returns, at the latest when its time is over. *)
WaitEnds ==
  /\ ~Idle
  /\ Top.waiting
  /\ Replace([Top EXCEPT !.waiting = FALSE, !.todo = Tail(@)])
  /\ UNCHANGED <<running, serialVars, socketVars, seen, radioVars>>

(* Every socket is served.  SERIAL_STATUS falls through to SERIAL_NAME_USE *)
(* which asks for the name now; then readyRead or the event loop goes on.  *)
After ==
  CASE Top.field = "status" ->
         <<Fanout(Top.reader, "name", Text(portName))>> \o Tail(stack)
    [] Top.field = "name" -> <<Reading(Top.reader)>> \o Tail(stack)
    [] OTHER -> Tail(stack)

FanoutEnds ==
  /\ ~Idle
  /\ Top.field \in UpdateFields
  /\ ~Top.waiting
  /\ Top.todo = <<>>
  /\ stack' = After
  /\ UNCHANGED <<running, serialVars, socketVars, seen, radioVars>>

-----------------------------------------------------------------------------
(* Sockets that go away. *)

(* The slot disconnected(): out of every list, deleteLater.  What a        *)
(* running readyRead of the socket has left to do it still does.           *)
Disconnected(s) ==
  /\ running
  /\ object[s] = "live"
  /\ Attends(s)
  /\ Cardinality({t \in Sockets : object[t] # "live"}) < MaxDisconnects
  /\ object' = [object EXCEPT ![s] = "closed"]
  /\ subscribers' = RemoveOne(subscribers, s)
  /\ inbox' = IF s \in Readers THEN inbox ELSE [inbox EXCEPT ![s] = <<>>]
  /\ UNCHANGED <<running, serialVars, stack, seen, radioVars>>

(* The event loop deletes the objects that asked for it. *)
DeferredDelete(s) ==
  /\ running
  /\ Idle
  /\ object[s] = "closed"
  /\ object' = [object EXCEPT ![s] = "deleted"]
  /\ UNCHANGED <<running, serialVars, subscribers, inbox, stack, seen,
                 radioVars>>

-----------------------------------------------------------------------------
(* The serial port and the timers: events of the loop. *)

(* Mutant of TelemetryPacket: handled in the middle of a fan-out. *)
TelemetryPacketNested ==
  /\ running
  /\ port = "open"
  /\ telemetry < MaxTelemetry
  /\ telemetry' = telemetry + 1
  /\ stack' = <<Fanout(NoSocket, "telemetry", Packet(telemetry + 1))>> \o stack
  /\ UNCHANGED <<running, serialVars, socketVars, seen, abort_initiated,
                 abortParity>>

(* receiveSerialData decodes every byte it has read: the event loop calls  *)
(* it while the port is open, and the packets of one reading follow each   *)
(* other, whatever has become of the port.                                 *)
DecodesPacket ==
  \/ running /\ Idle /\ port = "open"
  \/ /\ ~Idle
     /\ Top.field = "telemetry"
     /\ ~Top.waiting
     /\ Top.todo = <<>>

(* handleSerialPacket with a telemetry packet, whose fan-out is always the *)
(* outermost call.                                                         *)
TelemetryPacket ==
  /\ DecodesPacket
  /\ telemetry < MaxTelemetry
  /\ telemetry' = telemetry + 1
  /\ stack' = <<Fanout(NoSocket, "telemetry", Packet(telemetry + 1))>>
  /\ UNCHANGED <<running, serialVars, socketVars, seen, abort_initiated,
                 abortParity>>

(* handleSerialPacket with ABORT_BOARD: abort_loop, which starts its timer *)
(* the first time only.                                                    *)
AbortPacket ==
  /\ DecodesPacket
  /\ abort_initiated' = TRUE
  /\ UNCHANGED <<running, serialVars, socketVars, stack, seen, telemetry,
                 abortParity>>

(* Mutant of AbortTick: one abort command only. *)
AbortTickOnce ==
  /\ running
  /\ Idle
  /\ abort_initiated
  /\ abortParity' = IF port = "open" THEN 1 ELSE abortParity
  /\ UNCHANGED <<running, serialVars, socketVars, stack, seen, telemetry,
                 abort_initiated>>

(* The timer sends the abort command, through the same sendSerialPacket: a *)
(* closed port drops it.                                                   *)
AbortTick ==
  /\ running
  /\ Idle
  /\ abort_initiated
  /\ abortParity' = IF port = "open" THEN 1 - abortParity ELSE abortParity
  /\ UNCHANGED <<running, serialVars, socketVars, stack, seen, telemetry,
                 abort_initiated>>

(* serialError closes the port on an unknown error and tells nobody. *)
SerialError ==
  /\ running
  /\ Idle
  /\ port = "open"
  /\ port' = "close"
  /\ unreported' = TRUE
  /\ UNCHANGED <<running, portName, socketVars, stack, seen, radioVars>>

-----------------------------------------------------------------------------

HandleRequest ==
  \/ ReceiveSubscribe
  \/ ReceiveUnsubscribe
  \/ ReceiveGet
  \/ SetSerialStatus
  \/ SerialStatus
  \/ SerialNameUse
  \/ SendOrder
  \/ UnmappedCommand

Continue == HandleRequest \/ ReadEnds \/ WriteUpdate \/ WaitEnds \/ FanoutEnds

Next ==
  \/ \E s \in Sockets :
       \/ \E r \in Requests : ClientSends(s, r)
       \/ ReadyRead(s)
       \/ Disconnected(s)
       \/ DeferredDelete(s)
  \/ Continue
  \/ WriteToDeleted
  \/ TelemetryPacket
  \/ AbortPacket
  \/ AbortTick
  \/ SerialError

Spec == Init /\ [][Next]_vars

(* The thread goes on with what it does, every wait has a time limit (that *)
(* of a call goes on while other calls come and go above it), and an       *)
(* active QTimer keeps firing between the other events of the loop.        *)
Fairness ==
  /\ WF_vars(Continue)
  /\ \A n \in 1 .. Cardinality(Sockets) + 1 :
       SF_vars(WaitEnds /\ Len(stack) = n)
  /\ SF_vars(AbortTick)

FairSpec == Spec /\ Fairness
-----------------------------------------------------------------------------

Dangling(s) == object[s] # "live" /\ Listed(subscribers, s)

(* A subscriber list comes to hold a client that has disconnected only     *)
(* while that client's own readyRead is running: disconnected() takes the  *)
(* only entry out, and but for requests already read nobody can put it     *)
(* back.                                                                   *)
DanglingOnlyInOwnRead ==
  [][\A s \in Sockets : Dangling(s)' /\ ~Dangling(s) => s \in Readers]_vars

(* Calls nest at most once per client, plus the fan-out serial data began: *)
(* requests cannot pile up on the call stack.                              *)
NestingBounded == Len(stack) <= Cardinality(Sockets) + 1

(* A client never sees telemetry go back in time, nested fan-outs or not. *)
TelemetryInOrder ==
  [][\A s \in Sockets :
       seen'[s].telemetry.number >= seen[s].telemetry.number]_vars

(* server.cpp:268, on the slot disconnected(): "Remove disconnected        *)
(* clients".  Between two events no list holds a client that has           *)
(* disconnected: the next update would write to a deleted object.          *)
DisconnectedRemoved ==
  running /\ Idle =>
    \A i \in DOMAIN subscribers : object[subscribers[i]] = "live"

(* server.cpp:358: after a command that sets the serial port "the serial   *)
(* status is automatically updated".  When nothing is running, nothing     *)
(* else has touched the port and nobody has subscribed since, every        *)
(* subscriber's last status is the port's.                                 *)
StatusAgrees ==
  running /\ Idle /\ ~unreported =>
    \A s \in Sockets : object[s] = "live" /\ Listed(subscribers, s) =>
      seen[s].status = Text(port)

(* `while (bytesAvailable)' of readyRead comes to an end for every client: *)
(* no client sends faster than the server reads, for ever.                 *)
ReadsEnd == \A s \in Sockets : []<>(s \notin Readers)

(* Once the abort loop runs, and while the port is open, the abort command *)
(* goes out again and again, unless a client keeps its readyRead busy for  *)
(* ever.                                                                   *)
AbortRepeats ==
  ReadsEnd /\ <>[](running /\ port = "open" /\ abort_initiated)
    => []<>(abortParity = 0) /\ []<>(abortParity = 1)

==============================================================================
