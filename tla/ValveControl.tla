---------------------------- MODULE ValveControl ----------------------------
(***************************************************************************)
(* The buttons of one valve in one GUI process: ValveButton (the diagram,  *)
(* confirmed by a modal dialog) and ToggleButton, both served by the one   *)
(* ClientManager of the process.  A button orders a position and shows     *)
(* "unknown" until telemetry reports one.  Telemetry keeps arriving while  *)
(* a dialog is open and while send() waits for its bytes to be written.    *)
(*                                                                         *)
(* The server and the board are external: they carry out the orders that   *)
(* reach them, or drop them, and report the position now and then.         *)
(***************************************************************************)
EXTENDS Naturals, Sequences

CONSTANTS
  Diagram,      \* the ValveButtons of the field
  Toggles,      \* the ToggleButtons of the field
  MaxInFlight,  \* bound: orders, and reports, on their way
  MaxBreaks     \* bound: connections that break

ASSUME ButtonAssumption ==
  /\ Diagram \cap Toggles = {}
  /\ MaxInFlight \in Nat \ {0}
  /\ MaxBreaks \in Nat

VARIABLES
  shown,      \* shown[w]: currentState of a ValveButton, m_state of a toggle
  checked,    \* checked[t]: m_checked of a toggle
  handler,    \* the click in progress
  link,       \* state of the ClientManager's socket
  timer,      \* m_reconnectTimer is active
  outbox,     \* orders written to the socket, not yet at the server
  orders,     \* orders the server has, not yet carried out
  reports,    \* telemetry of the valve on its way to the process
  valve,      \* where the valve is
  breaks,     \* how many connections have broken
  lastReport, \* history: the last report received
  awaiting    \* history: no report since the last order's handler returned

widgetVars == <<shown, checked, handler>>
linkVars == <<link, timer, outbox>>
farVars == <<orders, reports, valve>>
historyVars == <<lastReport, awaiting>>
vars == <<widgetVars, linkVars, farVars, breaks, historyVars>>

Widgets == Diagram \cup Toggles
Positions == {"Open", "Close"}
States == Positions \cup {"Unknown"}

(* Mutant of Opposite: an unknown position is ordered as it is. *)
OppositeIfKnown(p) ==
  IF p = "Close" THEN "Open" ELSE IF p = "Open" THEN "Close" ELSE p

(* The order a click amounts to; the diagram closes what is unknown. *)
Opposite(p) == IF p = "Close" THEN "Open" ELSE "Close"

(* Where the process is: in its event loop, in the event loop of the       *)
(* dialog that w opened when it showed asked, or in send(), which waits    *)
(* until w's order is written.                                             *)
Idle == [at |-> "loop"]
Asking(w, asked) == [at |-> "dialog", who |-> w, asked |-> asked]
Posting(w) == [at |-> "posting", who |-> w]

Handlers == {Idle} \cup {Asking(w, p) : w \in Diagram, p \in States}
                   \cup {Posting(w) : w \in Widgets}

TypeOK ==
  /\ shown \in [Widgets -> States]
  /\ checked \in [Toggles -> BOOLEAN]
  /\ handler \in Handlers
  /\ link \in {"Unconnected", "Connecting", "Connected"}
  /\ timer \in BOOLEAN
  /\ outbox \in Seq(Positions)
  /\ orders \in Seq(Positions)
  /\ reports \in Seq(Positions)
  /\ valve \in Positions
  /\ breaks \in 0..MaxBreaks
  /\ lastReport \in States
  /\ awaiting \in BOOLEAN

(* Every button starts unknown; when the constructor of ClientManager      *)
(* failed to connect, the buttons' subscriptions have started the timer.   *)
Init ==
  /\ shown = [w \in Widgets |-> "Unknown"]
  /\ checked = [t \in Toggles |-> FALSE]
  /\ handler = Idle
  /\ \/ link = "Connected" /\ timer = FALSE
     \/ link = "Unconnected" /\ timer = TRUE
  /\ outbox = <<>>
  /\ orders = <<>>
  /\ reports = <<>>
  /\ valve \in Positions
  /\ breaks = 0
  /\ lastReport = "Unknown"
  /\ awaiting = FALSE
-----------------------------------------------------------------------------
(* The buttons. *)

(* The callbacks of the field, on a value from the server.                 *)
(* Mutant of Notified: a toggle waits for the position it asked for.       *)
NotifiedIfExpected(p) ==
  /\ shown' = [w \in Widgets |->
       IF w \in Toggles /\ shown[w] = "Unknown" /\ checked[w] # (p = "Open")
       THEN "Unknown" ELSE p]
  /\ UNCHANGED checked

(* Mutant of Notified: the closing branch forgets m_checked. *)
NotifiedKeepsChecked(p) ==
  /\ shown' = [w \in Widgets |-> p]
  /\ checked' = [t \in Toggles |-> checked[t] \/ p = "Open"]

Notified(p) ==
  /\ shown' = [w \in Widgets |-> p]
  /\ checked' = [t \in Toggles |-> p = "Open"]

(* ClientManager::send of a POST; unconnected, it drops the order and      *)
(* starts the timer, and the internal request after it fares no better.    *)
Send(w, order) ==
  \/ /\ link = "Unconnected"
     /\ timer' = TRUE
     /\ handler' = Idle
     /\ UNCHANGED <<link, outbox>>
  \/ /\ link # "Unconnected"
     /\ Len(outbox) < MaxInFlight
     /\ outbox' = Append(outbox, order)
     /\ handler' = Posting(w)
     /\ UNCHANGED <<link, timer>>

(* mousePressEvent of a ValveButton: the modal dialog opens. *)
ClickDiagram(d) ==
  /\ handler = Idle
  /\ handler' = Asking(d, shown[d])
  /\ UNCHANGED <<shown, checked, linkVars, farVars, breaks, historyVars>>

AnswerNo(d) ==
  /\ handler.at = "dialog" /\ handler.who = d
  /\ handler' = Idle
  /\ UNCHANGED <<shown, checked, linkVars, farVars, breaks, historyVars>>

(* The order is taken from the state at the time of the answer. *)
AnswerYes(d) ==
  /\ handler.at = "dialog" /\ handler.who = d
  /\ Send(d, Opposite(shown[d]))
  /\ UNCHANGED <<shown, checked, farVars, breaks, historyVars>>

(* mousePressEvent of a ToggleButton: setChecked(!m_checked). *)
ClickToggle(t) ==
  LET order == IF checked[t] THEN "Close" ELSE "Open" IN
  /\ handler = Idle
  /\ shown[t] # order
  /\ checked' = [checked EXCEPT ![t] = ~@]
  /\ shown' = [shown EXCEPT ![t] = "Unknown"]
  /\ Send(t, order)
  /\ UNCHANGED <<farVars, breaks, historyVars>>

(* Mutant of OrderWritten: only the button itself is told. *)
OrderWrittenTellsOne ==
  /\ handler.at = "posting"
  /\ link # "Connecting"
  /\ handler' = Idle
  /\ IF link = "Unconnected"
     THEN /\ timer' = TRUE /\ UNCHANGED <<shown, awaiting>>
     ELSE /\ shown' = [shown EXCEPT ![handler.who] = "Unknown"]
          /\ awaiting' = TRUE /\ UNCHANGED timer
  /\ UNCHANGED <<checked, link, outbox, farVars, breaks, lastReport>>

(* Mutant of OrderWritten: the internal request is left out. *)
OrderWrittenTellsNobody ==
  /\ handler.at = "posting"
  /\ link # "Connecting"
  /\ handler' = Idle
  /\ IF link = "Unconnected"
     THEN timer' = TRUE /\ UNCHANGED awaiting
     ELSE awaiting' = TRUE /\ UNCHANGED timer
  /\ UNCHANGED <<shown, checked, link, outbox, farVars, breaks, lastReport>>

(* Mutant of OrderWritten: the buttons show the position that was ordered. *)
OrderWrittenShowsIt ==
  /\ handler.at = "posting"
  /\ link # "Connecting"
  /\ handler' = Idle
  /\ IF link = "Unconnected" \/ outbox = <<>>
     THEN /\ timer' = (timer \/ link = "Unconnected")
          /\ UNCHANGED <<shown, awaiting>>
     ELSE /\ shown' = [w \in Widgets |-> outbox[Len(outbox)]]
          /\ awaiting' = TRUE /\ UNCHANGED timer
  /\ UNCHANGED <<checked, link, outbox, farVars, breaks, lastReport>>

(* waitForBytesWritten returns and the INTERNAL request is sent: it is     *)
(* handled by the process itself, for every button of the field, unless    *)
(* the connection was lost during the wait.                                *)
OrderWritten ==
  /\ handler.at = "posting"
  /\ link # "Connecting"
  /\ handler' = Idle
  /\ IF link = "Unconnected"
     THEN /\ timer' = TRUE /\ UNCHANGED <<shown, awaiting>>
     ELSE /\ shown' = [w \in Widgets |-> "Unknown"]
          /\ awaiting' = TRUE /\ UNCHANGED timer
  /\ UNCHANGED <<checked, link, outbox, farVars, breaks, lastReport>>

(* readyRead, in any of the three places that dispatch it. *)
Receive ==
  /\ link = "Connected"
  /\ reports # <<>>
  /\ Notified(Head(reports))
  /\ reports' = Tail(reports)
  /\ lastReport' = Head(reports)
  /\ awaiting' = FALSE
  /\ UNCHANGED <<handler, linkVars, orders, valve, breaks>>
-----------------------------------------------------------------------------
(* The connection.  Nothing but the event loop runs the timer. *)

Tick ==
  /\ timer
  /\ link = "Unconnected"
  /\ handler.at # "posting"
  /\ link' = "Connecting"
  /\ UNCHANGED <<widgetVars, timer, outbox, farVars, breaks, historyVars>>

(* connected(): the timer stops, the fields are subscribed again. *)
Connects ==
  /\ link = "Connecting"
  /\ link' = "Connected"
  /\ timer' = FALSE
  /\ UNCHANGED <<widgetVars, outbox, farVars, breaks, historyVars>>

(* The attempt fails; what was buffered for it is gone. *)
Refused ==
  /\ link = "Connecting"
  /\ link' = "Unconnected"
  /\ outbox' = <<>>
  /\ UNCHANGED <<widgetVars, timer, farVars, breaks, historyVars>>

(* Mutant of Disconnects: nobody starts the timer. *)
DisconnectsNoTimer ==
  /\ link = "Connected"
  /\ breaks < MaxBreaks
  /\ breaks' = breaks + 1
  /\ link' = "Unconnected"
  /\ outbox' = <<>>
  /\ reports' = <<>>
  /\ UNCHANGED <<widgetVars, timer, orders, valve, historyVars>>

(* The connection breaks and disconnected() runs. *)
Disconnects ==
  /\ link = "Connected"
  /\ breaks < MaxBreaks
  /\ breaks' = breaks + 1
  /\ link' = "Unconnected"
  /\ timer' = TRUE
  /\ outbox' = <<>>
  /\ reports' = <<>>
  /\ UNCHANGED <<widgetVars, orders, valve, historyVars>>
-----------------------------------------------------------------------------
(* The server, the board and the valve. *)

Flush ==
  /\ link = "Connected"
  /\ outbox # <<>>
  /\ Len(orders) < MaxInFlight
  /\ orders' = Append(orders, Head(outbox))
  /\ outbox' = Tail(outbox)
  /\ UNCHANGED <<widgetVars, link, timer, reports, valve, breaks, historyVars>>

(* The order is carried out, or lost: the serial port may be closed. *)
Execute ==
  /\ orders # <<>>
  /\ orders' = Tail(orders)
  /\ valve' \in {valve, Head(orders)}
  /\ UNCHANGED <<widgetVars, linkVars, reports, breaks, historyVars>>

(* Another client's order, or a sequence of the board. *)
ValveMoves ==
  /\ valve' = Opposite(valve)
  /\ UNCHANGED <<widgetVars, linkVars, orders, reports, breaks, historyVars>>

Report ==
  /\ link = "Connected"
  /\ Len(reports) < MaxInFlight
  /\ reports' = Append(reports, valve)
  /\ UNCHANGED <<widgetVars, linkVars, orders, valve, breaks, historyVars>>
-----------------------------------------------------------------------------

Next ==
  \/ \E d \in Diagram : ClickDiagram(d) \/ AnswerNo(d) \/ AnswerYes(d)
  \/ \E t \in Toggles : ClickToggle(t)
  \/ OrderWritten
  \/ Receive
  \/ Tick
  \/ Connects
  \/ Refused
  \/ Disconnects
  \/ Flush
  \/ Execute
  \/ ValveMoves
  \/ Report

(* The event loops go on, telemetry is periodic, and a server that is      *)
(* asked again and again answers some day.  The operator promises nothing. *)
Fairness ==
  /\ WF_vars(OrderWritten)
  /\ WF_vars(Receive)
  /\ WF_vars(Report)
  /\ WF_vars(Tick)
  /\ SF_vars(Connects)

Spec == Init /\ [][Next]_vars
FairSpec == Spec /\ Fairness
-----------------------------------------------------------------------------

(* The two fields of a toggle agree: when it shows a position, m_checked,  *)
(* which the next click negates into an order, is that position.  Between  *)
(* a click and the next report they are apart (ToggleButton::setChecked).  *)
ToggleAgrees ==
  \A t \in Toggles : shown[t] # "Unknown" => checked[t] = (shown[t] = "Open")

(* The buttons of a field never contradict each other, wherever the click, *)
(* the wait and the reports of telemetry interleave: the diagram's buttons *)
(* are alike, a toggle differs only by being unknown (it says so before    *)
(* its order leaves, and even if the order never leaves).                  *)
WidgetsAgree ==
  \A d \in Diagram, w \in Widgets :
    \/ shown[w] = shown[d]
    \/ w \in Toggles /\ shown[w] = "Unknown"

(* No button shows a position telemetry has not reported last: an order    *)
(* alone never makes a button show that the valve has moved.               *)
ShowsReports == \A w \in Widgets : shown[w] \in {"Unknown", lastReport}

(* After an order no button shows the position from before it: until the   *)
(* next report all of them are unknown.  It takes the internal request     *)
(* after the post, since a report may arrive while the post is written.    *)
UnknownAfterOrder == awaiting => \A w \in Widgets : shown[w] = "Unknown"

(* No button stays unknown for ever: orders that were dropped, lost with   *)
(* a connection, or not carried out are cleared by a later report.         *)
KnownAgain == []<>(\A w \in Widgets : shown[w] # "Unknown")

(* ValveButton.cpp:52, "Are you sure you want to toggle the valve": the    *)
(* order that a Yes sends is the opposite of the position the operator saw *)
(* when the question was asked.                                            *)
ConfirmedOrder ==
  [][\A d \in Diagram :
       AnswerYes(d) /\ handler.asked # "Unknown" /\ outbox' # outbox
         => outbox'[Len(outbox')] = Opposite(handler.asked)]_vars
=============================================================================
