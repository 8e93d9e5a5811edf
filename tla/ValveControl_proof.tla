-------------------------- MODULE ValveControl_proof --------------------------
(***************************************************************************)
(* Proofs about ValveControl, for any number of buttons and any bounds.    *)
(* The four invariants and the types together are inductive.               *)
(***************************************************************************)
EXTENDS ValveControl, TLAPS

ButtonInv == ToggleAgrees /\ WidgetsAgree /\ ShowsReports /\ UnknownAfterOrder

IInv == TypeOK /\ ButtonInv

LEMMA OppositeType == \A p : Opposite(p) \in Positions
BY DEF Opposite, Positions

LEMMA InitIInv == Init => IInv
<1> SUFFICES ASSUME Init PROVE IInv
  OBVIOUS
<1>1. TypeOK
  <2>1. Idle \in Handlers
    BY DEF Handlers
  <2>2. <<>> \in Seq(Positions)
    OBVIOUS
  <2>3. /\ shown \in [Widgets -> States]
        /\ checked \in [Toggles -> BOOLEAN]
        /\ lastReport \in States
    BY DEF Init, States
  <2>4. /\ link \in {"Unconnected", "Connecting", "Connected"}
        /\ timer \in BOOLEAN
        /\ awaiting \in BOOLEAN
    BY DEF Init
  <2>5. breaks \in 0..MaxBreaks
    BY ButtonAssumption DEF Init
  <2> QED
    BY <2>1, <2>2, <2>3, <2>4, <2>5 DEF Init, TypeOK
<1>2. ButtonInv
  BY DEF Init, ButtonInv, ToggleAgrees, WidgetsAgree, ShowsReports,
         UnknownAfterOrder, Widgets
<1> QED
  BY <1>1, <1>2 DEF IInv

(* What stays true when no button, and nothing they depend on, changes. *)
LEMMA QuietStep ==
  ASSUME IInv, UNCHANGED <<shown, checked, lastReport, awaiting>>
  PROVE  ButtonInv'
BY DEF IInv, ButtonInv, ToggleAgrees, WidgetsAgree, ShowsReports,
       UnknownAfterOrder

(* A value that reaches every callback leaves the buttons in agreement. *)
LEMMA ReceiveKeeps ==
  ASSUME IInv, Receive
  PROVE  ButtonInv'
<1> DEFINE p == Head(reports)
<1>1. p \in Positions
  BY DEF IInv, TypeOK, Receive
<1>2. /\ \A w \in Widgets : shown'[w] = p
      /\ \A t \in Toggles : checked'[t] = (p = "Open")
      /\ lastReport' = p
      /\ awaiting' = FALSE
  BY DEF Receive, Notified
<1> QED
  BY <1>1, <1>2
  DEF ButtonInv, ToggleAgrees, WidgetsAgree, ShowsReports,
      UnknownAfterOrder, Widgets

LEMMA ClickToggleKeeps ==
  ASSUME IInv, NEW t \in Toggles, ClickToggle(t)
  PROVE  ButtonInv'
<1>1. /\ shown' = [shown EXCEPT ![t] = "Unknown"]
      /\ checked' = [checked EXCEPT ![t] = ~@]
      /\ lastReport' = lastReport
      /\ awaiting' = awaiting
  BY DEF ClickToggle, historyVars
<1>2. /\ shown'[t] = "Unknown"
      /\ \A w \in Widgets : w # t => shown'[w] = shown[w]
      /\ \A u \in Toggles : u # t => checked'[u] = checked[u]
  BY <1>1 DEF IInv, TypeOK, Widgets
<1>3. t \notin Diagram
  BY ButtonAssumption
<1> QED
  BY <1>1, <1>2, <1>3
  DEF IInv, ButtonInv, ToggleAgrees, WidgetsAgree, ShowsReports,
      UnknownAfterOrder, Widgets

LEMMA OrderWrittenKeeps ==
  ASSUME IInv, OrderWritten
  PROVE  ButtonInv'
<1>1. CASE link = "Unconnected"
  BY <1>1, QuietStep DEF OrderWritten
<1>2. CASE link # "Unconnected"
  <2>1. /\ \A w \in Widgets : shown'[w] = "Unknown"
        /\ checked' = checked
    BY <1>2 DEF OrderWritten
  <2> QED
    BY <2>1 DEF ButtonInv, ToggleAgrees, WidgetsAgree, ShowsReports,
                UnknownAfterOrder, Widgets
<1> QED
  BY <1>1, <1>2

(* send() keeps the types of what it changes. *)
LEMMA SendType ==
  ASSUME TypeOK, NEW w \in Widgets, NEW order \in Positions, Send(w, order)
  PROVE  /\ timer' \in BOOLEAN
         /\ link' = link
         /\ outbox' \in Seq(Positions)
         /\ handler' \in Handlers
<1>1. Idle \in Handlers /\ Posting(w) \in Handlers
  BY DEF Handlers
<1>2. CASE link = "Unconnected"
  BY <1>1, <1>2 DEF Send, TypeOK
<1>3. CASE link # "Unconnected"
  <2>1. /\ outbox' = Append(outbox, order)
        /\ handler' = Posting(w)
        /\ link' = link
        /\ timer' = timer
    BY <1>3 DEF Send
  <2>2. outbox \in Seq(Positions) /\ timer \in BOOLEAN
    BY DEF TypeOK
  <2>3. Append(outbox, order) \in Seq(Positions)
    BY <2>2
  <2> QED
    BY <1>1, <2>1, <2>2, <2>3
<1> QED
  BY <1>2, <1>3

LEMMA TypeStep ==
  ASSUME IInv, [Next]_vars
  PROVE  TypeOK'
<1> USE DEF IInv
<1>1. ASSUME NEW d \in Diagram, ClickDiagram(d)
      PROVE  TypeOK'
  <2>1. shown[d] \in States /\ Asking(d, shown[d]) \in Handlers
    BY DEF TypeOK, Widgets, Handlers
  <2> QED
    BY <1>1, <2>1 DEF ClickDiagram, TypeOK, linkVars, farVars, historyVars
<1>2. ASSUME NEW d \in Diagram, AnswerNo(d)
      PROVE  TypeOK'
  <2>1. Idle \in Handlers
    BY DEF Handlers
  <2> QED
    BY <1>2, <2>1 DEF AnswerNo, TypeOK, linkVars, farVars, historyVars
<1>3. ASSUME NEW d \in Diagram, AnswerYes(d)
      PROVE  TypeOK'
  <2>1. Opposite(shown[d]) \in Positions /\ d \in Widgets
    BY OppositeType DEF Widgets
  <2>2. Send(d, Opposite(shown[d]))
    BY <1>3 DEF AnswerYes
  <2> QED
    BY <1>3, <2>1, <2>2, SendType DEF AnswerYes, TypeOK, farVars, historyVars
<1>4. ASSUME NEW t \in Toggles, ClickToggle(t)
      PROVE  TypeOK'
  <2> DEFINE order == IF checked[t] THEN "Close" ELSE "Open"
  <2>1. order \in Positions /\ t \in Widgets
    BY DEF Positions, Widgets
  <2>2. Send(t, order)
    BY <1>4 DEF ClickToggle
  <2>3. shown' \in [Widgets -> States]
    BY <1>4 DEF ClickToggle, TypeOK, States
  <2>4. checked' \in [Toggles -> BOOLEAN]
    BY <1>4 DEF ClickToggle, TypeOK
  <2> HIDE DEF order
  <2> QED
    BY <1>4, <2>1, <2>2, <2>3, <2>4, SendType
    DEF ClickToggle, TypeOK, farVars, historyVars
<1>5. ASSUME OrderWritten
      PROVE  TypeOK'
  <2>1. Idle \in Handlers
    BY DEF Handlers
  <2>2. shown' \in [Widgets -> States]
    BY <1>5 DEF OrderWritten, TypeOK, States
  <2> QED
    BY <1>5, <2>1, <2>2 DEF OrderWritten, TypeOK, farVars
<1>6. ASSUME Receive
      PROVE  TypeOK'
  <2>1. Head(reports) \in Positions /\ Tail(reports) \in Seq(Positions)
    BY <1>6 DEF Receive, TypeOK
  <2> QED
    BY <1>6, <2>1 DEF Receive, Notified, TypeOK, States, linkVars
<1>7. ASSUME Tick \/ Connects \/ Refused \/ Disconnects
      PROVE  TypeOK'
  <2>1. /\ link' \in {"Unconnected", "Connecting", "Connected"}
        /\ breaks' \in 0..MaxBreaks
    BY <1>7, ButtonAssumption
    DEF Tick, Connects, Refused, Disconnects, TypeOK
  <2>2. outbox' \in {outbox, <<>>} /\ reports' \in {reports, <<>>}
    BY <1>7 DEF Tick, Connects, Refused, Disconnects, farVars
  <2>3. /\ UNCHANGED <<shown, checked, handler, orders, valve>>
        /\ UNCHANGED <<lastReport, awaiting>>
    BY <1>7
    DEF Tick, Connects, Refused, Disconnects, widgetVars, farVars, historyVars
  <2>4. <<>> \in Seq(Positions)
    OBVIOUS
  <2>5. timer' \in BOOLEAN
    BY <1>7, Zenon DEF Tick, Connects, Refused, Disconnects, TypeOK
  <2> QED
    BY <2>1, <2>2, <2>3, <2>4, <2>5 DEF TypeOK
<1>8. ASSUME Flush
      PROVE  TypeOK'
  BY <1>8 DEF Flush, TypeOK, widgetVars, historyVars
<1>9. ASSUME Execute
      PROVE  TypeOK'
  BY <1>9 DEF Execute, TypeOK, widgetVars, linkVars, historyVars
<1>10. ASSUME ValveMoves
       PROVE  TypeOK'
  BY <1>10, OppositeType DEF ValveMoves, TypeOK, widgetVars, linkVars,
     historyVars
<1>11. ASSUME Report
       PROVE  TypeOK'
  BY <1>11 DEF Report, TypeOK, widgetVars, linkVars, historyVars
<1>12. ASSUME UNCHANGED vars
       PROVE  TypeOK'
  BY <1>12 DEF vars, TypeOK, widgetVars, linkVars, farVars, historyVars
<1> QED
  BY <1>1, <1>2, <1>3, <1>4, <1>5, <1>6, <1>7, <1>8, <1>9, <1>10, <1>11,
     <1>12
  DEF Next

LEMMA ButtonStep ==
  ASSUME IInv, [Next]_vars
  PROVE  ButtonInv'
<1>1. ASSUME NEW d \in Diagram, ClickDiagram(d) \/ AnswerNo(d) \/ AnswerYes(d)
      PROVE  ButtonInv'
  BY <1>1, QuietStep DEF ClickDiagram, AnswerNo, AnswerYes, historyVars
<1>2. ASSUME NEW t \in Toggles, ClickToggle(t)
      PROVE  ButtonInv'
  BY <1>2, ClickToggleKeeps
<1>3. ASSUME OrderWritten
      PROVE  ButtonInv'
  BY <1>3, OrderWrittenKeeps
<1>4. ASSUME Receive
      PROVE  ButtonInv'
  BY <1>4, ReceiveKeeps
<1>5. ASSUME \/ Tick \/ Connects \/ Refused \/ Disconnects
             \/ Flush \/ Execute \/ ValveMoves \/ Report
             \/ UNCHANGED vars
      PROVE  ButtonInv'
  BY <1>5, QuietStep
  DEF Tick, Connects, Refused, Disconnects, Flush, Execute, ValveMoves,
      Report, vars, widgetVars, historyVars
<1> QED
  BY <1>1, <1>2, <1>3, <1>4, <1>5 DEF Next

(* The types and the four invariants hold in every reachable state.  Each  *)
(* click and each report preserves them, whatever interleaves with a       *)
(* dialog or with the wait of send().                                      *)
THEOREM ValveInvariant == Spec => []IInv
<1>1. IInv /\ [Next]_vars => IInv'
  BY TypeStep, ButtonStep DEF IInv
<1> QED
  BY InitIInv, <1>1, PTL DEF Spec

(* Type correctness of the buttons and of what they exchange with the      *)
(* server (ValveButton, ToggleButton, ClientManager::send).                *)
THEOREM ValveTypeOK == Spec => []TypeOK
BY ValveInvariant, PTL DEF IInv

(* m_checked of a toggle is the position the toggle shows, whenever it     *)
(* shows one (ToggleButton::updateState, setChecked).                      *)
THEOREM ValveToggleAgrees == Spec => []ToggleAgrees
BY ValveInvariant, PTL DEF IInv, ButtonInv

(* The buttons of a field never contradict each other                      *)
(* (ClientManager::notifyChildrenFields tells all of them).                *)
THEOREM ValveWidgetsAgree == Spec => []WidgetsAgree
BY ValveInvariant, PTL DEF IInv, ButtonInv

(* A position that is shown was the last one reported: orders never show   *)
(* as done (ValveButton.cpp:60-63).                                        *)
THEOREM ValveShowsReports == Spec => []ShowsReports
BY ValveInvariant, PTL DEF IInv, ButtonInv

(* Between an order and the next report every button is unknown            *)
(* (ValveButton.cpp:54-63, ToggleButton.cpp:38-52).                        *)
THEOREM ValveUnknownAfterOrder == Spec => []UnknownAfterOrder
BY ValveInvariant, PTL DEF IInv, ButtonInv
===============================================================================
