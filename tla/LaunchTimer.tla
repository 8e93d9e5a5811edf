---------------------------- MODULE LaunchTimer ----------------------------
(***************************************************************************)
(* The count-down of GUI/src/MainWindow.cpp: a LAUNCH button that was      *)
(* confirmed arms it, a report that the rocket pressurizes starts it.      *)
(***************************************************************************)
EXTENDS Naturals

CONSTANT MaxTenths   \* bound: ticks of the count-down

ASSUME TimerAssumption == MaxTenths \in Nat \ {0}

VARIABLES
  launchInitiated,    \* LAUNCH was confirmed
  isActive,           \* launchTimer->isActive()
  launchTimerValue,   \* tenths of a second since LAUNCH_DELAY
  origin              \* history: what set launchInitiated

timerVars == <<launchInitiated, isActive, launchTimerValue, origin>>

(* The values of AV_STATE the timer tells apart, and one of the others. *)
AvStates == {"INIT", "ARM", "PRESSURIZATION", "AoG"}

TimerTypeOK ==
  /\ launchInitiated \in BOOLEAN
  /\ isActive \in BOOLEAN
  /\ launchTimerValue \in 0..MaxTenths
  /\ origin \in {"nobody", "memory", "operator"}

(* The constructor leaves launchInitiated as it finds it. *)
TimerInit ==
  /\ launchInitiated \in BOOLEAN
  /\ isActive = FALSE
  /\ launchTimerValue = 0
  /\ origin = IF launchInitiated THEN "memory" ELSE "nobody"

InitiateLaunchTimer ==
  /\ launchInitiated' = TRUE
  /\ origin' = "operator"
  /\ UNCHANGED <<isActive, launchTimerValue>>

(* Mutant of StartLaunchTimer: a count-down that runs begins again. *)
StartLaunchTimerAgain ==
  /\ launchInitiated
  /\ isActive' = TRUE
  /\ launchTimerValue' = 1
  /\ UNCHANGED <<launchInitiated, origin>>

(* The value is shown and incremented at once. *)
StartLaunchTimer ==
  /\ launchInitiated /\ ~isActive
  /\ isActive' = TRUE
  /\ launchTimerValue' = 1
  /\ UNCHANGED <<launchInitiated, origin>>

(* Mutant of StopAndForget: the flag is kept. *)
StopOnly ==
  /\ isActive' = FALSE
  /\ origin' = "nobody"
  /\ UNCHANGED <<launchInitiated, launchTimerValue>>

StopAndForget ==
  /\ isActive' = FALSE
  /\ launchInitiated' = FALSE
  /\ origin' = "nobody"
  /\ UNCHANGED launchTimerValue

(* "INIT" stops the count-down but leaves it armed. *)
UpdateLaunchTimerState(av_state) ==
  \/ av_state = "PRESSURIZATION" /\ StartLaunchTimer
  \/ /\ av_state = "PRESSURIZATION" /\ ~(launchInitiated /\ ~isActive)
     /\ UNCHANGED timerVars
  \/ av_state = "AoG" /\ StopAndForget
  \/ /\ av_state = "INIT" /\ isActive' = FALSE
     /\ UNCHANGED <<launchInitiated, launchTimerValue, origin>>
  \/ av_state = "ARM" /\ UNCHANGED timerVars

UpdateLaunchTimer ==
  /\ isActive
  /\ launchTimerValue < MaxTenths
  /\ launchTimerValue' = launchTimerValue + 1
  /\ UNCHANGED <<launchInitiated, isActive, origin>>
-----------------------------------------------------------------------------

(* No count-down runs that nobody asked for: the operator has confirmed    *)
(* LAUNCH since the last abort on the ground, or the memory launchInitiated*)
(* was never initialised in was not zero.                                  *)
CountdownExplained == isActive => origin # "nobody"

(* A count-down that runs only goes forward: the reports that arrive ten   *)
(* times a second in "PRESSURIZATION" do not begin it again.               *)
CountdownForward ==
  [][isActive /\ isActive' => launchTimerValue' >= launchTimerValue]_timerVars
=============================================================================
