---------------------------- MODULE ControlPanel ----------------------------
(***************************************************************************)
(* One GUI process and the server, from a click to the radio: the push     *)
(* buttons (ControlPannelView.cpp), the launch timer (MainWindow.cpp), the *)
(* view of the serial port (SerialView.cpp), the connection, and what the  *)
(* server does with the commands.  A modal dialog runs an event loop:      *)
(* updates, ticks and broken connections arrive while it is open.          *)
(*                                                                         *)
(* send() waits for its bytes, but nothing comes after it in the handlers  *)
(* of this module.  That the reconnect timer is on whenever the client is  *)
(* unconnected is ReconnectArmed of SubscriptionLink.                      *)
(***************************************************************************)
EXTENDS CommandMap, LaunchTimer, Sequences

CONSTANTS
  NoButton,     \* no dialog is open
  MaxPosts,     \* bound: commands the operator gives, for each build
  MaxReports,   \* bound: updates on their way when a report is sent
  MaxFaults     \* bound: broken connections and serial errors

ASSUME PanelAssumption ==
  /\ \A b \in Builds : NoButton \notin PushButtons(b)
  /\ MaxPosts \in [Builds -> Nat]
  /\ {MaxReports, MaxFaults} \subseteq Nat

VARIABLES
  build,        \* for which vehicle the two programs were built
  dialog,       \* the button whose dialog is open
  status,       \* what the serial view shows
  link,         \* state of the ClientManager's socket
  uplink,       \* requests written to the socket
  downlink,     \* updates on their way to the process
  late,         \* requests of a broken connection the server has received
  running,      \* the server process runs
  subscribed,   \* the connection is in the lists of the two fields
  port,         \* "open" or "close": serialPort->isOpen()
  radio,        \* the last packet written to the serial port
  posts,        \* commands given so far
  faults,       \* faults so far
  told,         \* history: the last change of the port was written downlink
  asked         \* history: a click of the serial view waits for its answer

guiVars == <<build, dialog, status, posts>>
linkVars == <<link, uplink, downlink, late>>
serverVars == <<running, subscribed, port, radio>>
vars == <<timerVars, guiVars, linkVars, serverVars, faults, told, asked>>

(* cmd is a field; of is cmd_order for the serial port, the button that    *)
(* was confirmed (history: cmd_order is 1) for an order.                   *)
Request(cmd, of) == [cmd |-> cmd, of |-> of]
SubscribeRequest == Request("subscribe", "")
StatusRequest == Request("SERIAL_STATUS", "")

Fields == {"subscribe", "SERIAL_STATUS", "GUI_CMD_SET_SERIAL_STATUS"}
Requests ==
  [cmd : Fields \cup {UNKNOWN} \cup PushButtons(build),
   of : {"", "open", "close"} \cup PushButtons(build)]

Statuses == {"open", "close"}
Updates == AvStates \cup Statuses

NoPacket == [order |-> "", button |-> NoButton]
Packets ==
  [order : {""} \cup {Orders(build)[f] : f \in DOMAIN Orders(build)},
   button : {NoButton} \cup PushButtons(build)]

PanelTypeOK ==
  /\ build \in Builds
  /\ TimerTypeOK
  /\ dialog \in PushButtons(build) \cup {NoButton}
  /\ status \in Statuses \cup {"unknown"}
  /\ link \in {"Unconnected", "Connecting", "Connected"}
  /\ uplink \in Seq(Requests)
  /\ downlink \in Seq(Updates)
  /\ late \in Seq(Requests)
  /\ running \in BOOLEAN
  /\ subscribed \in BOOLEAN
  /\ port \in Statuses
  /\ radio \in Packets
  /\ posts \in 0..MaxPosts[build]
  /\ faults \in 0..MaxFaults
  /\ told \in BOOLEAN
  /\ asked \in BOOLEAN

(* The views subscribe and the serial view asks for the status as they are *)
(* built, just after ClientManager has tried to connect.                   *)
Init ==
  /\ build \in Builds
  /\ TimerInit
  /\ dialog = NoButton
  /\ status = "unknown"
  /\ \/ link = "Connected" /\ uplink = <<SubscribeRequest, StatusRequest>>
     \/ link = "Unconnected" /\ uplink = <<>>
  /\ downlink = <<>>
  /\ late = <<>>
  /\ running = TRUE
  /\ subscribed = FALSE
  /\ port \in Statuses
  /\ radio = NoPacket
  /\ posts = 0
  /\ faults = 0
  /\ told = FALSE
  /\ asked = FALSE
-----------------------------------------------------------------------------
(* The operator. *)

(* ClientManager::send of a POST: dropped when unconnected, kept in the    *)
(* socket's buffer while it connects.                                      *)
Post(request) ==
  /\ posts < MaxPosts[build]
  /\ posts' = posts + 1
  /\ uplink' = IF link = "Unconnected" THEN uplink ELSE Append(uplink, request)
  /\ UNCHANGED <<link, downlink, late>>

(* The modal dialog opens.  Bound: a command is left. *)
PressButton(b) ==
  /\ dialog = NoButton
  /\ posts < MaxPosts[build]
  /\ dialog' = b
  /\ UNCHANGED <<timerVars, build, status, posts, linkVars, serverVars, faults,
                 told, asked>>

AnswerNo ==
  /\ dialog # NoButton
  /\ dialog' = NoButton
  /\ UNCHANGED <<timerVars, build, status, posts, linkVars, serverVars, faults,
                 told, asked>>

(* LAUNCH arms the count-down, then every button posts its command. *)
AnswerYes ==
  /\ dialog # NoButton
  /\ dialog' = NoButton
  /\ IF dialog = "GUI_CMD_LAUNCH" THEN InitiateLaunchTimer
                                  ELSE UNCHANGED timerVars
  /\ Post(Request(FieldNameToEnum(dialog), dialog))
  /\ UNCHANGED <<build, status, serverVars, faults, told, asked>>

(* SerialView::buttonClicked: close what is shown open, open anything else.*)
ClickSerial ==
  LET cmd_order == IF status = "open" THEN "close" ELSE "open" IN
  /\ dialog = NoButton
  /\ Post(Request("GUI_CMD_SET_SERIAL_STATUS", cmd_order))
  /\ asked' = (asked \/ link = "Connected")
  /\ UNCHANGED <<timerVars, build, dialog, status, serverVars, faults, told>>
-----------------------------------------------------------------------------
(* The process's event loop, the dialog's included. *)

Tick ==
  /\ UpdateLaunchTimer
  /\ UNCHANGED <<guiVars, linkVars, serverVars, faults, told, asked>>

(* ClientManager::readyRead runs the callbacks of the field: updateStatus  *)
(* of the serial view, or UpdateLaunchTimerState.                          *)
ReadUpdate ==
  /\ link = "Connected"
  /\ downlink # <<>>
  /\ downlink' = Tail(downlink)
  /\ \/ /\ Head(downlink) \in Statuses
        /\ status' = Head(downlink)
        /\ asked' = FALSE
        /\ UNCHANGED timerVars
     \/ /\ Head(downlink) \in AvStates
        /\ UpdateLaunchTimerState(Head(downlink))
        /\ UNCHANGED <<status, asked>>
  /\ UNCHANGED <<build, dialog, posts, link, uplink, late, serverVars, faults,
                 told>>

Dial ==
  /\ link = "Unconnected"
  /\ link' = "Connecting"
  /\ UNCHANGED <<timerVars, guiVars, uplink, downlink, late, serverVars,
                 faults, told, asked>>

(* Mutant of Connects: the fields are not subscribed again. *)
ConnectsOnly ==
  /\ link = "Connecting"
  /\ running
  /\ link' = "Connected"
  /\ UNCHANGED <<timerVars, guiVars, uplink, downlink, late, serverVars,
                 faults, told, asked>>

(* connected(): the fields are subscribed again, after what was written to *)
(* the buffer meanwhile.  Nobody asks for the status again.                *)
Connects ==
  /\ link = "Connecting"
  /\ running
  /\ link' = "Connected"
  /\ uplink' = Append(uplink, SubscribeRequest)
  /\ UNCHANGED <<timerVars, guiVars, downlink, late, serverVars, faults, told,
                 asked>>

(* The attempt fails, and the buffer is lost. *)
DialFails ==
  /\ link = "Connecting"
  /\ link' = "Unconnected"
  /\ uplink' = <<>>
  /\ UNCHANGED <<timerVars, guiVars, downlink, late, serverVars, faults, told,
                 asked>>
-----------------------------------------------------------------------------
(* The connection and the serial port. *)

HasStatus(q) == \E i \in DOMAIN q : q[i] \in Statuses

(* The connection breaks.  The server may have received some of what was   *)
(* sent, and reads it later.  Bound: one broken connection at a time.      *)
Breaks ==
  /\ link = "Connected"
  /\ running
  /\ late = <<>>
  /\ faults < MaxFaults
  /\ faults' = faults + 1
  /\ \E n \in 0..Len(uplink) : late' = SubSeq(uplink, 1, n)
  /\ link' = "Unconnected"
  /\ uplink' = <<>>
  /\ downlink' = <<>>
  /\ subscribed' = FALSE
  /\ told' = (told /\ ~HasStatus(downlink))
  /\ asked' = FALSE
  /\ UNCHANGED <<timerVars, guiVars, running, port, radio>>

(* The connection to a server that is gone breaks, too. *)
ServerGone ==
  /\ link = "Connected"
  /\ ~running
  /\ link' = "Unconnected"
  /\ uplink' = <<>>
  /\ downlink' = <<>>
  /\ asked' = FALSE
  /\ UNCHANGED <<timerVars, guiVars, late, serverVars, faults, told>>

(* serialError: the port closes and nobody is told. *)
SerialError ==
  /\ running
  /\ port = "open"
  /\ faults < MaxFaults
  /\ faults' = faults + 1
  /\ port' = "close"
  /\ told' = FALSE
  /\ UNCHANGED <<timerVars, guiVars, linkVars, running, subscribed, radio,
                 asked>>

(* Telemetry with AV_STATE; the hopper's has another field. *)
Report(av_state) ==
  /\ build = "Firehorn"
  /\ running
  /\ port = "open"
  /\ subscribed
  /\ Len(downlink) < MaxReports
  /\ downlink' = Append(downlink, av_state)
  /\ UNCHANGED <<timerVars, guiVars, link, uplink, late, serverVars, faults,
                 told, asked>>
-----------------------------------------------------------------------------
(* The server. *)

(* The next request of the connection that stands, or of the broken one. *)
Reads(request) ==
  /\ running
  /\ \/ /\ link = "Connected"
        /\ uplink # <<>>
        /\ request = Head(uplink)
        /\ uplink' = Tail(uplink)
        /\ UNCHANGED late
     \/ /\ late # <<>>
        /\ request = Head(late)
        /\ late' = Tail(late)
        /\ UNCHANGED uplink
  /\ UNCHANGED <<timerVars, guiVars, link, faults, asked>>

(* Mutant of SendStatus: a closed port is not named "close".               *)
SendStatusUnknown ==
  /\ downlink' = IF ~subscribed THEN downlink
                 ELSE Append(downlink,
                             IF port' = "open" THEN "open" ELSE "unknown")
  /\ told' = (subscribed \/ (told /\ port' = port))

(* updateSubscriptions(SERIAL_STATUS) *)
SendStatus ==
  /\ downlink' = IF subscribed THEN Append(downlink, port') ELSE downlink
  /\ told' = (subscribed \/ (told /\ port' = port))

(* A subscription of the broken connection serves nobody. *)
ReceiveSubscribe ==
  /\ Reads(SubscribeRequest)
  /\ subscribed' = (subscribed \/ late' = late)
  /\ UNCHANGED <<downlink, running, port, radio, told>>

SerialStatus ==
  /\ Reads(StatusRequest)
  /\ UNCHANGED serverVars
  /\ SendStatus

(* Mutant of SetSerialStatus: what was asked is reported, not what is.     *)
SetSerialStatusAsAsked ==
  \E s \in Statuses :
    /\ Reads(Request("GUI_CMD_SET_SERIAL_STATUS", s))
    /\ port' \in IF s = "close" THEN {"close"} ELSE {port, "open"}
    /\ downlink' = IF subscribed THEN Append(downlink, s) ELSE downlink
    /\ told' = (subscribed \/ (told /\ port' = port))
    /\ UNCHANGED <<running, subscribed, radio>>

(* Opening leaves an open port alone, and may find none. *)
SetSerialStatus ==
  \E s \in Statuses :
    /\ Reads(Request("GUI_CMD_SET_SERIAL_STATUS", s))
    /\ port' \in IF s = "close" THEN {"close"} ELSE {port, "open"}
    /\ SendStatus
    /\ UNCHANGED <<running, subscribed, radio>>

(* The buttons whose commands are first in line. *)
Pending ==
  {Head(q).of : q \in {uplink, late} \ {<<>>}} \cap PushButtons(build)

(* A closed port drops the packet. *)
SendOrder ==
  \E b \in Pending :
    LET f == FieldNameToEnum(b) IN
    /\ Reads(Request(f, b))
    /\ f \in DOMAIN Orders(build)
    /\ radio' = IF port = "open" THEN [order |-> Orders(build)[f], button |-> b]
                ELSE radio
    /\ UNCHANGED <<downlink, running, subscribed, port, told>>

(* getOrderIdFromGui throws and nothing catches it. *)
UnmappedCommand ==
  \E b \in Pending :
    /\ Reads(Request(FieldNameToEnum(b), b))
    /\ FieldNameToEnum(b) \notin DOMAIN Orders(build)
    /\ running' = FALSE
    /\ subscribed' = FALSE
    /\ port' = "close"
    /\ told' = FALSE
    /\ UNCHANGED <<downlink, radio>>

HandleRequest ==
  \/ ReceiveSubscribe
  \/ SerialStatus
  \/ SetSerialStatus
  \/ SendOrder
  \/ UnmappedCommand
-----------------------------------------------------------------------------

Next ==
  \/ \E b \in PushButtons(build) : PressButton(b)
  \/ AnswerNo
  \/ AnswerYes
  \/ ClickSerial
  \/ Tick
  \/ ReadUpdate
  \/ Dial
  \/ Connects
  \/ DialFails
  \/ Breaks
  \/ ServerGone
  \/ SerialError
  \/ \E a \in AvStates : Report(a)
  \/ HandleRequest

Spec == Init /\ [][Next]_vars

(* The event loops of the two processes go on, and the kernel closes the   *)
(* connections of a process that has ended.                                *)
FairSpec ==
  Spec /\ WF_vars(ReadUpdate) /\ WF_vars(HandleRequest) /\ WF_vars(ServerGone)
-----------------------------------------------------------------------------

(* No button of the Firehorn panel ends the server: every one of them has, *)
(* through the name on it, an order.                                       *)
FirehornSurvives == build = "Firehorn" => running

(* ControlPannelView.cpp:238, "Are you sure you want to execute '%1'?": a  *)
(* button that is confirmed is executed.  In no build does it end the      *)
(* server.                                                                 *)
ConfirmedIsExecuted == running

(* The packet on the radio is the order of the button that was confirmed,  *)
(* through the name on the button, the number posted and the order table:  *)
(* no other button of the panel would have sent it.                        *)
OrderNamesButton ==
  radio # NoPacket =>
    {b \in PushButtons(build) :
       /\ FieldNameToEnum(b) \in DOMAIN Orders(build)
       /\ Orders(build)[FieldNameToEnum(b)] = radio.order} = {radio.button}

(* When the server has told the view of the last change of the port and no *)
(* answer is on its way, the view shows the port as it is, whatever clicks,*)
(* failed openings and broken connections came before.                     *)
StatusShownIsTrue == told /\ ~HasStatus(downlink) => status = port

(* A click of the serial view while connected is answered with the state   *)
(* of the port, unless the connection breaks: also a click on a button     *)
(* whose label was out of date.                                            *)
ClickIsAnswered == asked ~> ~asked
=============================================================================
