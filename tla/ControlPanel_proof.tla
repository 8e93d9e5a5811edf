------------------------- MODULE ControlPanel_proof -------------------------
(***************************************************************************)
(* Proofs about ControlPanel, for any bounds.  The type invariant is       *)
(* split by what the provers are good at: flags, numbers, names, queues.   *)
(***************************************************************************)
EXTENDS ControlPanel, TLAPS

Flags ==
  /\ launchInitiated \in BOOLEAN
  /\ isActive \in BOOLEAN
  /\ running \in BOOLEAN
  /\ subscribed \in BOOLEAN
  /\ told \in BOOLEAN
  /\ asked \in BOOLEAN

Numbers ==
  /\ launchTimerValue \in 0..MaxTenths
  /\ posts \in 0..MaxPosts[build]
  /\ faults \in 0..MaxFaults

Names ==
  /\ build \in Builds
  /\ origin \in {"nobody", "memory", "operator"}
  /\ dialog \in PushButtons(build) \cup {NoButton}
  /\ status \in Statuses \cup {"unknown"}
  /\ link \in {"Unconnected", "Connecting", "Connected"}
  /\ port \in Statuses

Queues ==
  /\ uplink \in Seq(Requests)
  /\ downlink \in Seq(Updates)
  /\ late \in Seq(Requests)

Radio == radio \in Packets

(* No step takes a flag, a number or a name out of its range. *)
LEMMA FlagsStep ==
  ASSUME Flags, [Next]_vars
  PROVE  Flags'
  <1>1. ASSUME \E b \in PushButtons(build) : PressButton(b) PROVE Flags'
    BY <1>1, Zenon DEF Flags, PressButton, timerVars, guiVars, linkVars,
       serverVars
  <1>2. ASSUME AnswerNo PROVE Flags'
    BY <1>2, Zenon DEF Flags, AnswerNo, timerVars, guiVars, linkVars,
       serverVars
  <1>3. ASSUME AnswerYes PROVE Flags'
    BY <1>3, Zenon DEF Flags, AnswerYes, InitiateLaunchTimer, Post,
       timerVars, guiVars, linkVars, serverVars
  <1>4. ASSUME ClickSerial PROVE Flags'
    BY <1>4, Zenon DEF Flags, ClickSerial, Post, timerVars, guiVars,
       linkVars, serverVars
  <1>5. ASSUME Tick PROVE Flags'
    BY <1>5, Zenon DEF Flags, Tick, UpdateLaunchTimer, timerVars, guiVars,
       linkVars, serverVars
  <1>6. ASSUME ReadUpdate PROVE Flags'
    BY <1>6, Zenon DEF Flags, ReadUpdate, UpdateLaunchTimerState,
       StartLaunchTimer, StopAndForget, timerVars, guiVars, linkVars,
       serverVars
  <1>7. ASSUME Dial PROVE Flags'
    BY <1>7, Zenon DEF Flags, Dial, timerVars, guiVars, linkVars, serverVars
  <1>8. ASSUME Connects PROVE Flags'
    BY <1>8, Zenon DEF Flags, Connects, timerVars, guiVars, linkVars,
       serverVars
  <1>9. ASSUME DialFails PROVE Flags'
    BY <1>9, Zenon DEF Flags, DialFails, timerVars, guiVars, linkVars,
       serverVars
  <1>10. ASSUME Breaks PROVE Flags'
    BY <1>10, Zenon DEF Flags, Breaks, timerVars, guiVars, linkVars,
       serverVars
  <1>11. ASSUME ServerGone PROVE Flags'
    BY <1>11, Zenon DEF Flags, ServerGone, timerVars, guiVars, linkVars,
       serverVars
  <1>12. ASSUME SerialError PROVE Flags'
    BY <1>12, Zenon DEF Flags, SerialError, timerVars, guiVars, linkVars,
       serverVars
  <1>13. ASSUME \E a \in AvStates : Report(a) PROVE Flags'
    BY <1>13, Zenon DEF Flags, Report, timerVars, guiVars, linkVars,
       serverVars
  <1>14. ASSUME ReceiveSubscribe PROVE Flags'
    BY <1>14, Zenon DEF Flags, ReceiveSubscribe, Reads, timerVars, guiVars,
       linkVars, serverVars
  <1>15. ASSUME SerialStatus PROVE Flags'
    BY <1>15, Zenon DEF Flags, SerialStatus, Reads, SendStatus, timerVars,
       guiVars, linkVars, serverVars
  <1>16. ASSUME SetSerialStatus PROVE Flags'
    BY <1>16, Zenon DEF Flags, SetSerialStatus, Reads, SendStatus, timerVars,
       guiVars, linkVars, serverVars
  <1>17. ASSUME SendOrder PROVE Flags'
    BY <1>17, Zenon DEF Flags, SendOrder, Reads, timerVars, guiVars,
       linkVars, serverVars
  <1>18. ASSUME UnmappedCommand PROVE Flags'
    BY <1>18, Zenon DEF Flags, UnmappedCommand, Reads, timerVars, guiVars,
       linkVars, serverVars
  <1>19. ASSUME UNCHANGED vars PROVE Flags'
    BY <1>19, Zenon DEF Flags, vars, timerVars, guiVars, linkVars, serverVars
  <1> QED
    BY <1>1, <1>2, <1>3, <1>4, <1>5, <1>6, <1>7, <1>8, <1>9, <1>10, <1>11,
       <1>12, <1>13, <1>14, <1>15, <1>16, <1>17, <1>18, <1>19, Zenon DEF
       Next, HandleRequest

(* Counters stay within their bounds. *)
LEMMA NumbersStep ==
  ASSUME Names, Numbers, [Next]_vars
  PROVE  Numbers'
  <1>1. ASSUME \E b \in PushButtons(build) : PressButton(b) PROVE Numbers'
    BY <1>1, TimerAssumption, PanelAssumption, SMT DEF Numbers, PressButton,
       timerVars, guiVars, linkVars, serverVars
  <1>2. ASSUME AnswerNo PROVE Numbers'
    BY <1>2, TimerAssumption, PanelAssumption, SMT DEF Numbers, AnswerNo,
       timerVars, guiVars, linkVars, serverVars
  <1>3. ASSUME AnswerYes PROVE Numbers'
    BY <1>3, TimerAssumption, PanelAssumption, SMT DEF Numbers, AnswerYes,
       InitiateLaunchTimer, Post, timerVars, guiVars, linkVars, serverVars,
       Names
  <1>4. ASSUME ClickSerial PROVE Numbers'
    BY <1>4, TimerAssumption, PanelAssumption, SMT DEF Numbers, ClickSerial,
       Post, timerVars, guiVars, linkVars, serverVars, Names
  <1>5. ASSUME Tick PROVE Numbers'
    BY <1>5, TimerAssumption, PanelAssumption, SMT DEF Numbers, Tick,
       UpdateLaunchTimer, timerVars, guiVars, linkVars, serverVars
  <1>6. ASSUME ReadUpdate PROVE Numbers'
    BY <1>6, TimerAssumption, PanelAssumption, SMT DEF Numbers, ReadUpdate,
       UpdateLaunchTimerState, StartLaunchTimer, StopAndForget, timerVars,
       guiVars, linkVars, serverVars
  <1>7. ASSUME Dial PROVE Numbers'
    BY <1>7, TimerAssumption, PanelAssumption, SMT DEF Numbers, Dial,
       timerVars, guiVars, linkVars, serverVars
  <1>8. ASSUME Connects PROVE Numbers'
    BY <1>8, TimerAssumption, PanelAssumption, SMT DEF Numbers, Connects,
       timerVars, guiVars, linkVars, serverVars
  <1>9. ASSUME DialFails PROVE Numbers'
    BY <1>9, TimerAssumption, PanelAssumption, SMT DEF Numbers, DialFails,
       timerVars, guiVars, linkVars, serverVars
  <1>10. ASSUME Breaks PROVE Numbers'
    BY <1>10, TimerAssumption, PanelAssumption, SMT DEF Numbers, Breaks,
       timerVars, guiVars, linkVars, serverVars
  <1>11. ASSUME ServerGone PROVE Numbers'
    BY <1>11, TimerAssumption, PanelAssumption, SMT DEF Numbers, ServerGone,
       timerVars, guiVars, linkVars, serverVars
  <1>12. ASSUME SerialError PROVE Numbers'
    BY <1>12, TimerAssumption, PanelAssumption, SMT DEF Numbers, SerialError,
       timerVars, guiVars, linkVars, serverVars
  <1>13. ASSUME \E a \in AvStates : Report(a) PROVE Numbers'
    BY <1>13, TimerAssumption, PanelAssumption, SMT DEF Numbers, Report,
       timerVars, guiVars, linkVars, serverVars
  <1>14. ASSUME ReceiveSubscribe PROVE Numbers'
    BY <1>14, TimerAssumption, PanelAssumption, SMT DEF Numbers,
       ReceiveSubscribe, Reads, timerVars, guiVars, linkVars, serverVars
  <1>15. ASSUME SerialStatus PROVE Numbers'
    BY <1>15, TimerAssumption, PanelAssumption, SMT DEF Numbers,
       SerialStatus, Reads, SendStatus, timerVars, guiVars, linkVars,
       serverVars
  <1>16. ASSUME SetSerialStatus PROVE Numbers'
    BY <1>16, TimerAssumption, PanelAssumption, SMT DEF Numbers,
       SetSerialStatus, Reads, SendStatus, timerVars, guiVars, linkVars,
       serverVars
  <1>17. ASSUME SendOrder PROVE Numbers'
    BY <1>17, TimerAssumption, PanelAssumption, SMT DEF Numbers, SendOrder,
       Reads, timerVars, guiVars, linkVars, serverVars
  <1>18. ASSUME UnmappedCommand PROVE Numbers'
    BY <1>18, TimerAssumption, PanelAssumption, SMT DEF Numbers,
       UnmappedCommand, Reads, timerVars, guiVars, linkVars, serverVars
  <1>19. ASSUME UNCHANGED vars PROVE Numbers'
    BY <1>19, TimerAssumption, PanelAssumption, SMT DEF Numbers, vars,
       timerVars, guiVars, linkVars, serverVars
  <1> QED
    BY <1>1, <1>2, <1>3, <1>4, <1>5, <1>6, <1>7, <1>8, <1>9, <1>10, <1>11,
       <1>12, <1>13, <1>14, <1>15, <1>16, <1>17, <1>18, <1>19, Zenon DEF
       Next, HandleRequest

(* States, statuses and buttons stay what they are. *)
LEMMA NamesStep ==
  ASSUME Names, [Next]_vars
  PROVE  Names'
  <1>1. ASSUME \E b \in PushButtons(build) : PressButton(b) PROVE Names'
    BY <1>1, SMT DEF Names, PressButton, timerVars, guiVars, linkVars,
       serverVars
  <1>2. ASSUME AnswerNo PROVE Names'
    BY <1>2, SMT DEF Names, AnswerNo, timerVars, guiVars, linkVars, serverVars
  <1>3. ASSUME AnswerYes PROVE Names'
    BY <1>3, SMT DEF Names, AnswerYes, InitiateLaunchTimer, Post, timerVars,
       guiVars, linkVars, serverVars
  <1>4. ASSUME ClickSerial PROVE Names'
    BY <1>4, SMT DEF Names, ClickSerial, Post, timerVars, guiVars, linkVars,
       serverVars
  <1>5. ASSUME Tick PROVE Names'
    BY <1>5, SMT DEF Names, Tick, UpdateLaunchTimer, timerVars, guiVars,
       linkVars, serverVars
  <1>6. ASSUME ReadUpdate PROVE Names'
    BY <1>6, SMT DEF Names, ReadUpdate, UpdateLaunchTimerState,
       StartLaunchTimer, StopAndForget, timerVars, guiVars, linkVars,
       serverVars
  <1>7. ASSUME Dial PROVE Names'
    BY <1>7, SMT DEF Names, Dial, timerVars, guiVars, linkVars, serverVars
  <1>8. ASSUME Connects PROVE Names'
    BY <1>8, SMT DEF Names, Connects, timerVars, guiVars, linkVars, serverVars
  <1>9. ASSUME DialFails PROVE Names'
    BY <1>9, SMT DEF Names, DialFails, timerVars, guiVars, linkVars,
       serverVars
  <1>10. ASSUME Breaks PROVE Names'
    BY <1>10, SMT DEF Names, Breaks, timerVars, guiVars, linkVars, serverVars
  <1>11. ASSUME ServerGone PROVE Names'
    BY <1>11, SMT DEF Names, ServerGone, timerVars, guiVars, linkVars,
       serverVars
  <1>12. ASSUME SerialError PROVE Names'
    BY <1>12, SMT DEF Names, SerialError, timerVars, guiVars, linkVars,
       serverVars, Statuses
  <1>13. ASSUME \E a \in AvStates : Report(a) PROVE Names'
    BY <1>13, SMT DEF Names, Report, timerVars, guiVars, linkVars, serverVars
  <1>14. ASSUME ReceiveSubscribe PROVE Names'
    BY <1>14, SMT DEF Names, ReceiveSubscribe, Reads, timerVars, guiVars,
       linkVars, serverVars
  <1>15. ASSUME SerialStatus PROVE Names'
    BY <1>15, SMT DEF Names, SerialStatus, Reads, SendStatus, timerVars,
       guiVars, linkVars, serverVars
  <1>16. ASSUME SetSerialStatus PROVE Names'
    BY <1>16, SMT DEF Names, SetSerialStatus, Reads, SendStatus, timerVars,
       guiVars, linkVars, serverVars, Statuses
  <1>17. ASSUME SendOrder PROVE Names'
    BY <1>17, SMT DEF Names, SendOrder, Reads, timerVars, guiVars, linkVars,
       serverVars
  <1>18. ASSUME UnmappedCommand PROVE Names'
    BY <1>18, SMT DEF Names, UnmappedCommand, Reads, timerVars, guiVars,
       linkVars, serverVars, Statuses
  <1>19. ASSUME UNCHANGED vars PROVE Names'
    BY <1>19, SMT DEF Names, vars, timerVars, guiVars, linkVars, serverVars
  <1> QED
    BY <1>1, <1>2, <1>3, <1>4, <1>5, <1>6, <1>7, <1>8, <1>9, <1>10, <1>11,
       <1>12, <1>13, <1>14, <1>15, <1>16, <1>17, <1>18, <1>19, Zenon DEF
       Next, HandleRequest

(* The requests the two programs exchange. *)
LEMMA RequestsAre ==
  /\ SubscribeRequest \in Requests
  /\ StatusRequest \in Requests
  /\ \A s \in Statuses : Request("GUI_CMD_SET_SERIAL_STATUS", s) \in Requests
  /\ \A b \in PushButtons(build) : Request(FieldNameToEnum(b), b) \in Requests
  <1>1. \A b \in PushButtons(build) :
           FieldNameToEnum(b) \in {UNKNOWN} \cup PushButtons(build)
    BY DEF FieldNameToEnum
  <1> QED
    BY <1>1 DEF Requests, Request, Fields, SubscribeRequest, StatusRequest,
       Statuses

(* The sets that depend on the build are as constant as the build. *)
LEMMA SetsStay ==
  ASSUME build' = build
  PROVE  Requests' = Requests /\ Packets' = Packets
  BY DEF Requests, Packets

(* Reading takes the head of one queue. *)
LEMMA ReadsQueues ==
  ASSUME NEW r, Reads(r), Queues
  PROVE  uplink' \in Seq(Requests) /\ late' \in Seq(Requests)
  <1>1. \A q \in Seq(Requests) : q # <<>> => Tail(q) \in Seq(Requests)
    OBVIOUS
  <1>2. \/ uplink # <<>> /\ uplink' = Tail(uplink) /\ late' = late
        \/ late # <<>> /\ late' = Tail(late) /\ uplink' = uplink
    BY Zenon DEF Reads
  <1> QED
    BY <1>1, <1>2, Zenon DEF Queues

(* A status is an update. *)
LEMMA SendStatusQueue ==
  ASSUME Queues, SendStatus, port' \in Statuses
  PROVE  downlink' \in Seq(Updates)
  BY SMT DEF SendStatus, Queues, Updates
(* The queues hold requests and updates. *)
LEMMA QueuesStep ==
  ASSUME Queues, Names, Requests' = Requests, [Next]_vars
  PROVE  Queues'
  <1>1. ASSUME \E b \in PushButtons(build) : PressButton(b) PROVE Queues'
    BY <1>1, SMT DEF Queues, PressButton, timerVars, guiVars, linkVars,
       serverVars
  <1>2. ASSUME AnswerNo PROVE Queues'
    BY <1>2, SMT DEF Queues, AnswerNo, timerVars, guiVars, linkVars,
       serverVars
  <1>3. ASSUME AnswerYes PROVE Queues'
    BY <1>3, RequestsAre, SMT DEF Queues, AnswerYes, InitiateLaunchTimer,
       Post, timerVars, guiVars, linkVars, serverVars, Names
  <1>4. ASSUME ClickSerial PROVE Queues'
    BY <1>4, RequestsAre, SMT DEF Queues, ClickSerial, Post, timerVars,
       guiVars, linkVars, serverVars, Statuses
  <1>5. ASSUME Tick PROVE Queues'
    BY <1>5, SMT DEF Queues, Tick, UpdateLaunchTimer, timerVars, guiVars,
       linkVars, serverVars
  <1>6. ASSUME ReadUpdate PROVE Queues'
    BY <1>6, SMT DEF Queues, ReadUpdate, UpdateLaunchTimerState,
       StartLaunchTimer, StopAndForget, timerVars, guiVars, linkVars,
       serverVars
  <1>7. ASSUME Dial PROVE Queues'
    BY <1>7, SMT DEF Queues, Dial, timerVars, guiVars, linkVars, serverVars
  <1>8. ASSUME Connects PROVE Queues'
    BY <1>8, RequestsAre, SMT DEF Queues, Connects, timerVars, guiVars,
       linkVars, serverVars
  <1>9. ASSUME DialFails PROVE Queues'
    BY <1>9, SMT DEF Queues, DialFails, timerVars, guiVars, linkVars,
       serverVars
  <1>10. ASSUME Breaks PROVE Queues'
    BY <1>10, SMT DEF Queues, Breaks, timerVars, guiVars, linkVars, serverVars
  <1>11. ASSUME ServerGone PROVE Queues'
    BY <1>11, SMT DEF Queues, ServerGone, timerVars, guiVars, linkVars,
       serverVars
  <1>12. ASSUME SerialError PROVE Queues'
    BY <1>12, SMT DEF Queues, SerialError, timerVars, guiVars, linkVars,
       serverVars
  <1>13. ASSUME \E a \in AvStates : Report(a) PROVE Queues'
    BY <1>13, SMT DEF Queues, Report, timerVars, guiVars, linkVars,
       serverVars, Updates
  <1>14. ASSUME ReceiveSubscribe PROVE Queues'
    <2>1. PICK r : Reads(r)
      BY <1>14, Zenon DEF ReceiveSubscribe
    <2> QED
      BY <1>14, <2>1, ReadsQueues, SMT DEF ReceiveSubscribe, Queues
  <1>15. ASSUME SerialStatus PROVE Queues'
    <2>1. port' \in Statuses
      BY <1>15 DEF SerialStatus, serverVars, Names
    <2> QED
      BY <1>15, <2>1, ReadsQueues, SendStatusQueue DEF SerialStatus, Queues
  <1>16. ASSUME SetSerialStatus PROVE Queues'
    <2>1. port' \in Statuses /\ SendStatus
      BY <1>16 DEF SetSerialStatus, Names, Statuses
    <2>2. PICK r : Reads(r)
      BY <1>16 DEF SetSerialStatus
    <2> QED
      BY <2>1, <2>2, ReadsQueues, SendStatusQueue DEF Queues
  <1>17. ASSUME SendOrder PROVE Queues'
    <2>1. PICK r : Reads(r)
      BY <1>17, Zenon DEF SendOrder
    <2> QED
      BY <1>17, <2>1, ReadsQueues, SMT DEF SendOrder, Queues
  <1>18. ASSUME UnmappedCommand PROVE Queues'
    <2>1. PICK r : Reads(r)
      BY <1>18, Zenon DEF UnmappedCommand
    <2> QED
      BY <1>18, <2>1, ReadsQueues, SMT DEF UnmappedCommand, Queues
  <1>19. ASSUME UNCHANGED vars PROVE Queues'
    BY <1>19, SMT DEF Queues, vars, timerVars, guiVars, linkVars, serverVars
  <1> QED
    BY <1>1, <1>2, <1>3, <1>4, <1>5, <1>6, <1>7, <1>8, <1>9, <1>10, <1>11,
       <1>12, <1>13, <1>14, <1>15, <1>16, <1>17, <1>18, <1>19, Zenon DEF
       Next, HandleRequest

(* Only an order of the table is written to the serial port. *)
LEMMA RadioStep ==
  ASSUME Radio, Packets' = Packets, [Next]_vars
  PROVE  Radio'
  <1>1. ASSUME \E b \in PushButtons(build) : PressButton(b) PROVE Radio'
    BY <1>1, SMT DEF Radio, PressButton, timerVars, guiVars, linkVars,
       serverVars
  <1>2. ASSUME AnswerNo PROVE Radio'
    BY <1>2, SMT DEF Radio, AnswerNo, timerVars, guiVars, linkVars, serverVars
  <1>3. ASSUME AnswerYes PROVE Radio'
    BY <1>3, SMT DEF Radio, AnswerYes, InitiateLaunchTimer, Post, timerVars,
       guiVars, linkVars, serverVars
  <1>4. ASSUME ClickSerial PROVE Radio'
    BY <1>4, SMT DEF Radio, ClickSerial, Post, timerVars, guiVars, linkVars,
       serverVars
  <1>5. ASSUME Tick PROVE Radio'
    BY <1>5, SMT DEF Radio, Tick, UpdateLaunchTimer, timerVars, guiVars,
       linkVars, serverVars
  <1>6. ASSUME ReadUpdate PROVE Radio'
    BY <1>6, SMT DEF Radio, ReadUpdate, UpdateLaunchTimerState,
       StartLaunchTimer, StopAndForget, timerVars, guiVars, linkVars,
       serverVars
  <1>7. ASSUME Dial PROVE Radio'
    BY <1>7, SMT DEF Radio, Dial, timerVars, guiVars, linkVars, serverVars
  <1>8. ASSUME Connects PROVE Radio'
    BY <1>8, SMT DEF Radio, Connects, timerVars, guiVars, linkVars, serverVars
  <1>9. ASSUME DialFails PROVE Radio'
    BY <1>9, SMT DEF Radio, DialFails, timerVars, guiVars, linkVars,
       serverVars
  <1>10. ASSUME Breaks PROVE Radio'
    BY <1>10, SMT DEF Radio, Breaks, timerVars, guiVars, linkVars, serverVars
  <1>11. ASSUME ServerGone PROVE Radio'
    BY <1>11, SMT DEF Radio, ServerGone, timerVars, guiVars, linkVars,
       serverVars
  <1>12. ASSUME SerialError PROVE Radio'
    BY <1>12, SMT DEF Radio, SerialError, timerVars, guiVars, linkVars,
       serverVars
  <1>13. ASSUME \E a \in AvStates : Report(a) PROVE Radio'
    BY <1>13, SMT DEF Radio, Report, timerVars, guiVars, linkVars, serverVars
  <1>14. ASSUME ReceiveSubscribe PROVE Radio'
    BY <1>14, SMT DEF Radio, ReceiveSubscribe, Reads, timerVars, guiVars,
       linkVars, serverVars
  <1>15. ASSUME SerialStatus PROVE Radio'
    BY <1>15, SMT DEF Radio, SerialStatus, Reads, SendStatus, timerVars,
       guiVars, linkVars, serverVars
  <1>16. ASSUME SetSerialStatus PROVE Radio'
    BY <1>16, SMT DEF Radio, SetSerialStatus, Reads, SendStatus, timerVars,
       guiVars, linkVars, serverVars
  <1>17. ASSUME SendOrder PROVE Radio'
    <2>1. PICK b \in PushButtons(build) :
            /\ FieldNameToEnum(b) \in DOMAIN Orders(build)
            /\ radio' = IF port = "open"
                        THEN [order |-> Orders(build)[FieldNameToEnum(b)],
                              button |-> b]
                        ELSE radio
      BY <1>17, Zenon DEF SendOrder, Pending
    <2>2. [order |-> Orders(build)[FieldNameToEnum(b)], button |-> b]
            \in Packets
      BY <2>1 DEF Packets
    <2> QED
      BY <2>1, <2>2 DEF Radio
  <1>18. ASSUME UnmappedCommand PROVE Radio'
    BY <1>18, SMT DEF Radio, UnmappedCommand, Reads, timerVars, guiVars,
       linkVars, serverVars
  <1>19. ASSUME UNCHANGED vars PROVE Radio'
    BY <1>19, SMT DEF Radio, vars, timerVars, guiVars, linkVars, serverVars
  <1> QED
    BY <1>1, <1>2, <1>3, <1>4, <1>5, <1>6, <1>7, <1>8, <1>9, <1>10, <1>11,
       <1>12, <1>13, <1>14, <1>15, <1>16, <1>17, <1>18, <1>19, Zenon DEF
       Next, HandleRequest

(* The first state is typed. *)
LEMMA PanelTypesInit == Init => PanelTypeOK
  <1> SUFFICES ASSUME Init PROVE PanelTypeOK
    OBVIOUS
  <1>1. Flags
    BY Zenon DEF Init, TimerInit, Flags
  <1>2. Numbers
    BY TimerAssumption, PanelAssumption, SMT DEF Init, TimerInit, Numbers
  <1>3. Names
    BY SMT DEF Init, TimerInit, Names, Statuses
  <1>4. Queues
    <2>1. <<SubscribeRequest, StatusRequest>> \in Seq(Requests)
      BY RequestsAre
    <2>2. <<>> \in Seq(Requests) /\ <<>> \in Seq(Updates)
      OBVIOUS
    <2> QED
      BY <2>1, <2>2, Zenon DEF Init, Queues
  <1>5. Radio
    BY DEF Init, Radio, Packets, NoPacket
  <1> QED
    BY <1>1, <1>2, <1>3, <1>4, <1>5, Zenon
    DEF PanelTypeOK, TimerTypeOK, Flags, Numbers, Names, Queues, Radio

(* Nobody builds the programs again while they run. *)
LEMMA BuildStays == [Next]_vars => build' = build
  BY DEF Next, vars, guiVars, PressButton, AnswerNo, AnswerYes, ClickSerial,
     Tick, ReadUpdate, Dial, Connects, DialFails, Breaks, ServerGone,
     SerialError, Report, HandleRequest, ReceiveSubscribe, SerialStatus,
     SetSerialStatus, SendOrder, UnmappedCommand, Reads

(* Type correctness, for any bounds on posts, reports, ticks and faults. *)
THEOREM PanelTypes == Spec => []PanelTypeOK
  <1>1. PanelTypeOK /\ [Next]_vars => PanelTypeOK'
    <2> SUFFICES ASSUME PanelTypeOK, [Next]_vars PROVE PanelTypeOK'
      OBVIOUS
    <2>1. Flags /\ Numbers /\ Names /\ Queues /\ Radio
      BY Zenon
      DEF PanelTypeOK, TimerTypeOK, Flags, Numbers, Names, Queues, Radio
    <2>2. Requests' = Requests /\ Packets' = Packets
      BY BuildStays, SetsStay
    <2>3. Flags' /\ Numbers' /\ Names' /\ Queues' /\ Radio'
      BY <2>1, <2>2, FlagsStep, NumbersStep, NamesStep, QueuesStep, RadioStep
    <2> QED
      BY <2>3, Zenon
      DEF PanelTypeOK, TimerTypeOK, Flags, Numbers, Names, Queues, Radio
  <1> QED
    BY <1>1, PanelTypesInit, PTL DEF Spec
-----------------------------------------------------------------------------
(* The count-down. *)

(* The steps that concern the count-down. *)
LEMMA TimerSteps ==
  ASSUME [Next]_vars
  PROVE  AnswerYes \/ Tick \/ ReadUpdate \/ UNCHANGED timerVars
  BY DEF Next, vars, PressButton, AnswerNo, ClickSerial, Dial, Connects,
     DialFails, Breaks, ServerGone, SerialError, Report, HandleRequest,
     ReceiveSubscribe, SerialStatus, SetSerialStatus, SendOrder,
     UnmappedCommand, Reads

(* Neither a count-down nor what may start one goes unexplained. *)
Explained == launchInitiated \/ isActive => origin # "nobody"

(* CountdownExplained, by Explained: INIT stops the count-down and leaves  *)
(* it armed, and "AoG" clears both flags.                                  *)
THEOREM CountdownIsExplained == Spec => []CountdownExplained
  <1>1. Init => Explained
    BY Zenon DEF Init, TimerInit, Explained
  <1>2. Explained /\ [Next]_vars => Explained'
    <2> SUFFICES ASSUME Explained, [Next]_vars PROVE Explained'
      OBVIOUS
    <2>1. CASE AnswerYes
      BY <2>1, Zenon DEF AnswerYes, InitiateLaunchTimer, Explained, timerVars
    <2>2. CASE Tick
      BY <2>2, Zenon DEF Tick, UpdateLaunchTimer, Explained
    <2>3. CASE ReadUpdate
      BY <2>3, Zenon DEF ReadUpdate, UpdateLaunchTimerState, StartLaunchTimer,
         StopAndForget, Explained, timerVars
    <2>4. CASE UNCHANGED timerVars
      BY <2>4, Zenon DEF timerVars, Explained
    <2> QED
      BY <2>1, <2>2, <2>3, <2>4, TimerSteps
  <1>3. Explained => CountdownExplained
    BY Zenon DEF Explained, CountdownExplained
  <1> QED
    BY <1>1, <1>2, <1>3, PTL DEF Spec

(* CountdownForward: a start needs a count-down that does not run, and a   *)
(* tick adds.                                                              *)
THEOREM CountdownGoesForward == Spec => CountdownForward
  <1>1. ASSUME PanelTypeOK, [Next]_vars, isActive, isActive'
        PROVE  launchTimerValue' >= launchTimerValue
    <2>1. launchTimerValue \in Nat
      BY <1>1, TimerAssumption DEF PanelTypeOK, TimerTypeOK
    <2>2. CASE UNCHANGED launchTimerValue
      BY <2>1, <2>2
    <2>3. CASE launchTimerValue' = launchTimerValue + 1
      BY <2>1, <2>3
    <2>4. \/ UNCHANGED launchTimerValue
          \/ launchTimerValue' = launchTimerValue + 1
      BY <1>1, TimerSteps, Zenon DEF AnswerYes, InitiateLaunchTimer, Tick,
         UpdateLaunchTimer, ReadUpdate, UpdateLaunchTimerState,
         StartLaunchTimer, StopAndForget, timerVars
    <2> QED
      BY <2>2, <2>3, <2>4
  <1>2. PanelTypeOK /\ [Next]_vars
          => [isActive /\ isActive'
                => launchTimerValue' >= launchTimerValue]_timerVars
    BY <1>1, Zenon
  <1> QED
    BY <1>2, PanelTypes, PTL DEF Spec, CountdownForward
-----------------------------------------------------------------------------
(* The buttons and the table of orders. *)

(* Every name on the Firehorn panel reads back as a field with an order. *)
LEMMA FirehornMapped ==
  ASSUME NEW b \in PushButtons("Firehorn")
  PROVE  FieldNameToEnum(b) \in DOMAIN Orders("Firehorn")
  BY SMT DEF PushButtons, GsePushButtons, FirehornPushButtons, FieldNameToEnum,
         Nameless, Misread, Orders, FirehornOrders

(* No two buttons of the Firehorn panel send the same order. *)
LEMMA FirehornDistinct ==
  ASSUME NEW b \in PushButtons("Firehorn"), NEW c \in PushButtons("Firehorn"),
         Orders("Firehorn")[FieldNameToEnum(b)]
           = Orders("Firehorn")[FieldNameToEnum(c)]
  PROVE  b = c
  BY SMTT(60) DEF PushButtons, GsePushButtons, FirehornPushButtons,
         FieldNameToEnum, Nameless, Misread, Orders, FirehornOrders

(* The push buttons' part of the Icarus table is one-to-one. *)
LEMMA IcarusOneToOne ==
  ASSUME NEW f \in DOMAIN IcarusOrders, NEW g \in DOMAIN IcarusOrders,
         IcarusOrders[f] = IcarusOrders[g]
  PROVE  f = g
  BY SMTT(60) DEF IcarusOrders

(* No two buttons of the Icarus panel that reach the table share an order. *)
LEMMA IcarusDistinct ==
  ASSUME NEW b \in PushButtons("Icarus"), NEW c \in PushButtons("Icarus"),
         FieldNameToEnum(b) \in DOMAIN Orders("Icarus"),
         FieldNameToEnum(c) \in DOMAIN Orders("Icarus"),
         Orders("Icarus")[FieldNameToEnum(b)]
           = Orders("Icarus")[FieldNameToEnum(c)]
  PROVE  b = c
  <1>1. UNKNOWN \notin DOMAIN IcarusOrders
    BY SMT DEF UNKNOWN, IcarusOrders
  <1>2. Orders("Icarus") = IcarusOrders
    BY DEF Orders
  <1>3. FieldNameToEnum(b) = b /\ FieldNameToEnum(c) = c
    BY <1>1, <1>2 DEF FieldNameToEnum
  <1> QED
    BY <1>2, <1>3, IcarusOneToOne

(* The two cases together. *)
LEMMA OrdersDistinct ==
  ASSUME NEW v \in Builds, NEW b \in PushButtons(v), NEW c \in PushButtons(v),
         FieldNameToEnum(b) \in DOMAIN Orders(v),
         FieldNameToEnum(c) \in DOMAIN Orders(v),
         Orders(v)[FieldNameToEnum(b)] = Orders(v)[FieldNameToEnum(c)]
  PROVE  b = c
  <1>1. CASE v = "Firehorn"
    BY <1>1, FirehornDistinct
  <1>2. CASE v = "Icarus"
    BY <1>2, IcarusDistinct
  <1> QED
    BY <1>1, <1>2 DEF Builds

(* FirehornSurvives: every name on the Firehorn panel reads back as a      *)
(* field the order table has, so no confirmed button makes the server      *)
(* throw.                                                                  *)
THEOREM FirehornServerSurvives == Spec => []FirehornSurvives
  <1>1. Init => FirehornSurvives
    BY DEF Init, FirehornSurvives
  <1>2. FirehornSurvives /\ [Next]_vars => FirehornSurvives'
    <2> SUFFICES ASSUME FirehornSurvives, [Next]_vars, build = "Firehorn"
                 PROVE  running'
      BY BuildStays DEF FirehornSurvives
    <2>1. ~UnmappedCommand
      BY FirehornMapped DEF UnmappedCommand, Pending
    <2>2. running
      BY DEF FirehornSurvives
    <2>3. UnmappedCommand \/ UNCHANGED running
      BY DEF Next, vars, serverVars, PressButton, AnswerNo, AnswerYes,
         ClickSerial, Tick, ReadUpdate, Dial, Connects, DialFails, Breaks,
         ServerGone, SerialError, Report, HandleRequest, ReceiveSubscribe,
         SerialStatus, SetSerialStatus, SendOrder, Reads
    <2> QED
      BY <2>1, <2>2, <2>3
  <1> QED
    BY <1>1, <1>2, PTL DEF Spec

(* OrderNamesButton, for both vehicles: the order tables are one-to-one on *)
(* the names that read back.                                               *)
THEOREM RadioNamesButton == Spec => []OrderNamesButton
  <1>1. Init => OrderNamesButton
    BY DEF Init, OrderNamesButton
  <1>2. ASSUME PanelTypeOK, OrderNamesButton, [Next]_vars
        PROVE  OrderNamesButton'
    <2>1. build' = build /\ build \in Builds
      BY <1>2, BuildStays DEF PanelTypeOK
    <2>2. CASE UNCHANGED radio
      BY <1>2, <2>1, <2>2 DEF OrderNamesButton
    <2>3. CASE \E b \in PushButtons(build) :
                 /\ FieldNameToEnum(b) \in DOMAIN Orders(build)
                 /\ radio' = [order |-> Orders(build)[FieldNameToEnum(b)],
                              button |-> b]
      <3>1. PICK b \in PushButtons(build) :
              /\ FieldNameToEnum(b) \in DOMAIN Orders(build)
              /\ radio' = [order |-> Orders(build)[FieldNameToEnum(b)],
                           button |-> b]
        BY <2>3
      <3>2. /\ radio'.order = Orders(build)[FieldNameToEnum(b)]
            /\ radio'.button = b
        BY <3>1
      <3>3. {c \in PushButtons(build) :
               /\ FieldNameToEnum(c) \in DOMAIN Orders(build)
               /\ Orders(build)[FieldNameToEnum(c)] = radio'.order} = {b}
        BY <2>1, <3>1, <3>2, OrdersDistinct
      <3> QED
        BY <2>1, <3>2, <3>3 DEF OrderNamesButton
    <2>4. SendOrder \/ UNCHANGED radio
      BY <1>2 DEF Next, vars, serverVars, PressButton, AnswerNo, AnswerYes,
         ClickSerial, Tick, ReadUpdate, Dial, Connects, DialFails, Breaks,
         ServerGone, SerialError, Report, HandleRequest, ReceiveSubscribe,
         SerialStatus, SetSerialStatus, UnmappedCommand, Reads
    <2> QED
      BY <2>2, <2>3, <2>4 DEF SendOrder, Pending
  <1> QED
    BY <1>1, <1>2, PanelTypes, PTL DEF Spec
-----------------------------------------------------------------------------
(* The serial view. *)

(* What the view will show once it has read everything: the last status on *)
(* its way, if there is one, is the port's.                                *)
Last(q, i) ==
  q[i] \in Statuses /\ \A j \in (i + 1)..Len(q) : q[j] \notin Statuses

Tells(q, shown, p) ==
  /\ \A i \in 1..Len(q) : Last(q, i) => q[i] = p
  /\ ~HasStatus(q) => shown = p

StatusInv ==
  /\ told => running
  /\ told => Tells(downlink, status, port)

(* A new status settles the matter. *)
LEMMA TellsAppendStatus ==
  ASSUME NEW q \in Seq(Updates), NEW shown, NEW p \in Statuses
  PROVE  Tells(Append(q, p), shown, p)
  <1> DEFINE r == Append(q, p)
  <1>1. /\ Len(r) = Len(q) + 1 /\ r[Len(q) + 1] = p
        /\ \A i \in 1..Len(q) : r[i] = q[i]
        /\ DOMAIN r = 1..Len(r) /\ Len(q) \in Nat
    BY SMT DEF Updates
  <1> HIDE DEF r
  <1> QED
    BY <1>1, SMT DEF Tells, Last, HasStatus

(* A report of telemetry changes nothing. *)
LEMMA TellsAppendReport ==
  ASSUME NEW q \in Seq(Updates), NEW shown, NEW p, NEW a \in AvStates,
         Tells(q, shown, p)
  PROVE  Tells(Append(q, a), shown, p)
  <1> DEFINE r == Append(q, a)
  <1>1. /\ Len(r) = Len(q) + 1 /\ r[Len(q) + 1] = a
        /\ \A i \in 1..Len(q) : r[i] = q[i]
        /\ DOMAIN q = 1..Len(q) /\ DOMAIN r = 1..Len(r) /\ Len(q) \in Nat
    OBVIOUS
  <1>2. a \notin Statuses
    BY DEF AvStates, Statuses
  <1> HIDE DEF r
  <1> QED
    BY <1>1, <1>2, SMT DEF Tells, Last, HasStatus

(* Reading a status shows it; reading anything else changes nothing. *)
LEMMA TellsTail ==
  ASSUME NEW q \in Seq(Updates), q # <<>>, NEW shown, NEW p,
         Tells(q, shown, p)
  PROVE  Tells(Tail(q), IF Head(q) \in Statuses THEN Head(q) ELSE shown, p)
  <1> DEFINE r == Tail(q)
  <1>1. /\ Len(r) = Len(q) - 1 /\ Len(q) \in Nat \ {0}
        /\ \A i \in 1..Len(r) : r[i] = q[i + 1]
        /\ DOMAIN q = 1..Len(q) /\ DOMAIN r = 1..Len(r) /\ Head(q) = q[1]
    OBVIOUS
  <1> HIDE DEF r
  <1>0. ASSUME NEW j \in 2..Len(q)
        PROVE  j - 1 \in 1..Len(r) /\ r[j - 1] = q[j]
    <2>1. j - 1 \in 1..Len(r) /\ (j - 1) + 1 = j
      BY <1>1
    <2> QED
      BY <1>1, <2>1
  <1>2. ASSUME NEW i \in 1..Len(r), Last(r, i) PROVE r[i] = p
    <2>1. ASSUME NEW j \in ((i + 1) + 1)..Len(q) PROVE q[j] \notin Statuses
      <3>1. j \in 2..Len(q) /\ j - 1 \in (i + 1)..Len(r)
        BY <1>1
      <3> QED
        BY <1>2, <1>0, <3>1 DEF Last
    <2>2. i + 1 \in 1..Len(q) /\ q[i + 1] = r[i]
      BY <1>1
    <2>3. Last(q, i + 1)
      BY <1>2, <2>1, <2>2 DEF Last
    <2> QED
      BY <2>2, <2>3 DEF Tells
  <1>3. ASSUME ~HasStatus(r)
        PROVE  (IF Head(q) \in Statuses THEN Head(q) ELSE shown) = p
    <2>1. \A j \in 2..Len(q) : q[j] \notin Statuses
      BY <1>1, <1>3, <1>0 DEF HasStatus
    <2>2. CASE q[1] \in Statuses
      BY <1>1, <2>1, <2>2, SMT DEF Tells, Last
    <2>3. CASE q[1] \notin Statuses
      BY <1>1, <2>1, <2>3, SMT DEF Tells, HasStatus
    <2> QED
      BY <1>1, <2>2, <2>3
  <1> QED
    BY <1>2, <1>3 DEF r, Tells

(* Nothing on its way: what is shown is what counts. *)
LEMMA TellsEmpty ==
  ASSUME NEW shown
  PROVE  Tells(<<>>, shown, shown)
  BY SMT DEF Tells, Last, HasStatus

(* Steps after which what the view is about to show is still the port's.   *)
LEMMA StatusStep ==
  ASSUME PanelTypeOK, PanelTypeOK', StatusInv, [Next]_vars
  PROVE  StatusInv'
  <1>1. /\ downlink \in Seq(Updates) /\ port \in Statuses /\ port' \in Statuses
        /\ told \in BOOLEAN
    BY Zenon DEF PanelTypeOK
  <1>2. CASE ReadUpdate
    <2>1. /\ downlink # <<>> /\ downlink' = Tail(downlink)
          /\ UNCHANGED <<running, port, told>>
      BY <1>2 DEF ReadUpdate, serverVars
    <2>2. status' = IF Head(downlink) \in Statuses THEN Head(downlink)
                    ELSE status
      BY <1>2 DEF ReadUpdate, AvStates, Statuses
    <2>3. Tells(downlink, status, port) => Tells(downlink', status', port)
      BY <1>1, <2>1, <2>2, TellsTail
    <2> QED
      BY <2>1, <2>3 DEF StatusInv
  <1>3. CASE Breaks
    <2>1. ~HasStatus(downlink) /\ Tells(downlink, status, port)
            => status = port
      BY DEF Tells
    <2>2. /\ downlink' = <<>> /\ UNCHANGED <<running, status, port>>
          /\ told' = (told /\ ~HasStatus(downlink))
      BY <1>3 DEF Breaks, guiVars
    <2> QED
      BY <2>1, <2>2, TellsEmpty DEF StatusInv
  <1>4. CASE ServerGone
    BY <1>4 DEF ServerGone, StatusInv
  <1>5. CASE SerialError \/ UnmappedCommand
    BY <1>5 DEF SerialError, UnmappedCommand, StatusInv
  <1>6. CASE \E a \in AvStates : Report(a)
    <2>1. PICK a \in AvStates : Report(a)
      BY <1>6
    <2>2. /\ downlink' = Append(downlink, a)
          /\ UNCHANGED <<running, status, port, told>>
      BY <2>1 DEF Report, serverVars, guiVars
    <2>3. Tells(downlink, status, port) => Tells(downlink', status, port)
      BY <1>1, <2>2, TellsAppendReport
    <2> QED
      BY <2>2, <2>3 DEF StatusInv
  <1>7. CASE SerialStatus \/ SetSerialStatus
    <2>1. /\ SendStatus /\ running /\ UNCHANGED <<running, status>>
      BY <1>7 DEF SerialStatus, SetSerialStatus, Reads, serverVars, guiVars
    <2>2. CASE subscribed
      <3>1. downlink' = Append(downlink, port')
        BY <2>1, <2>2 DEF SendStatus
      <3>2. Tells(downlink', status, port')
        BY <1>1, <3>1, TellsAppendStatus
      <3> QED
        BY <2>1, <3>2 DEF StatusInv
    <2>3. CASE ~subscribed
      BY <2>1, <2>3 DEF SendStatus, StatusInv
    <2> QED
      BY <2>2, <2>3
  <1>8. CASE UNCHANGED <<running, told, downlink, status, port>>
    BY <1>8 DEF StatusInv, Tells, Last, HasStatus
  <1>9. \/ ReadUpdate \/ Breaks \/ ServerGone \/ SerialError \/ UnmappedCommand
        \/ \E a \in AvStates : Report(a)
        \/ SerialStatus \/ SetSerialStatus
        \/ UNCHANGED <<running, told, downlink, status, port>>
    BY DEF Next, vars, guiVars, linkVars, serverVars, PressButton, AnswerNo,
       AnswerYes, ClickSerial, Post, Tick, Dial, Connects, DialFails,
       HandleRequest, ReceiveSubscribe, SendOrder, Reads
  <1> QED
    BY <1>2, <1>3, <1>4, <1>5, <1>6, <1>7, <1>8, <1>9

(* StatusShownIsTrue, by StatusInv: the view and the statuses on their way *)
(* tell the port together.                                                 *)
THEOREM StatusIsTrue == Spec => []StatusShownIsTrue
  <1>1. Init => StatusInv
    BY Zenon DEF Init, StatusInv
  <1>2. PanelTypeOK /\ PanelTypeOK' /\ StatusInv /\ [Next]_vars => StatusInv'
    BY StatusStep
  <1>3. StatusInv => StatusShownIsTrue
    BY Zenon DEF StatusInv, Tells, StatusShownIsTrue
  <1> QED
    BY <1>1, <1>2, <1>3, PanelTypes, PTL DEF Spec
=============================================================================
