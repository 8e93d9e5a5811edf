----------------------------- MODULE CommandMap -----------------------------
(***************************************************************************)
(* What lies between the inscription of a push button and the order in a   *)
(* packet: fieldUtil::fieldNameToEnum (commons/include/FieldUtil.h) and    *)
(* getOrderIdFromGui (Server/src/RequestAdapter.cpp), for the two builds.  *)
(*                                                                         *)
(* An inscription is written here as the member of GUI_FIELD it was made   *)
(* from.  enumToFieldName has a case for 171 of the 195 members, each with *)
(* a name of its own; the others (Nameless) are all called "UNKNOWN".      *)
(***************************************************************************)

(* ICARUS_GUI with RF_PROTOCOL_ICARUS, FIREHORN_GUI with ..._FIREHORN. *)
Builds == {"Firehorn", "Icarus"}

UNKNOWN == "UNKNOWN"

(* The members without a case in enumToFieldName. *)
Nameless ==
  {"IGNITER_LOX", "IGNITER_FUEL", "SERIAL_STATUS", "SERIAL_NAME_USE",
   "AV_TIMER", "GSE_TIMER", "CMD_1", "CMD_2", "CMD_3",
   "GUI_CMD_SET_SERIAL_STATUS", "GUI_CMD_IGNITER_LOX",
   "GUI_CMD_IGNITER_FUEL", "GUI_CMD_MAIN_LOX", "GUI_CMD_MAIN_FUEL",
   "GUI_CMD_MAIN_N2O", "GUI_CMD_VENT_LOX", "GUI_CMD_VENT_FUEL",
   "GUI_CMD_VENT_N2", "GUI_CMD_VENT", "GUI_CMD_VENT_N2O", "GUI_CMD_P_LOX",
   "GUI_CMD_P_FUEL", "HOPPER_CHAMBER_PRESSURE", UNKNOWN}

(* Names fieldNameToEnum compares with another text ("HOPPER TARE          *)
(* PRESSURE", the GSE sensors and valves) or not at all.                   *)
Misread ==
  {"AV_PACKET_FREQ", "GUI_CMD_HOPPER_TARE",
   "GSE_GQN_NC1", "GSE_GQN_NC2", "GSE_GQN_NC3", "GSE_GQN_NC4", "GSE_GQN_NC5",
   "GSE_GPN_NC", "GSE_GPA_NC", "GSE_GVN_NC", "GSE_GFE_NC", "GSE_GFO_NCC",
   "GSE_GDO_NCC", "GSE_PC_OLC",
   "GSE_GP1", "GSE_GP2", "GSE_GP3", "GSE_GP4", "GSE_GP5"}

(* Mutant of FieldNameToEnum: two names that begin alike are confused. *)
FieldNameToEnumLoose(name) ==
  IF name \in Nameless \/ name \in Misread THEN UNKNOWN
  ELSE IF name = "GUI_CMD_GSE_ARM" THEN "GUI_CMD_ARM" ELSE name

FieldNameToEnum(name) ==
  IF name \in Nameless \/ name \in Misread THEN UNKNOWN ELSE name

(* The push buttons of the main window and of the GSE window. *)
GsePushButtons ==
  {"GUI_CMD_GSE_IDLE", "GUI_CMD_GSE_CALIBRATE", "GUI_CMD_GSE_ARM",
   "GUI_CMD_GSE_PASSIVATE", "GUI_CMD_GSE_SERVO1", "GUI_CMD_GSE_SERVO2"}

FirehornPushButtons ==
  GsePushButtons \cup
  {"GUI_CMD_CALIBRATE", "GUI_CMD_RECOVER", "GUI_CMD_ARM",
   "GUI_CMD_PRESSURIZE", "GUI_CMD_LAUNCH", "GUI_CMD_ABORT"}

IcarusPushButtons ==
  GsePushButtons \cup
  {"GUI_CMD_HOPPER_IDLE", "GUI_CMD_HOPPER_TARE_ORIENTATION", "GUI_CMD_ARM",
   "GUI_CMD_LAUNCH", "GUI_CMD_ABORT", "GUI_CMD_HOPPER_TARE",
   "GUI_CMD_HOPPER_HOMING_X", "GUI_CMD_HOPPER_HOMING_Y",
   "GUI_CMD_HOPPER_HOMING_MAIN_FUEL", "GUI_CMD_HOPPER_HOMING_MAIN_N2O",
   "GUI_CMD_HOPPER_SPARE_F1", "GUI_CMD_HOPPER_SPARE_F2",
   "GUI_CMD_HOPPER_SPARE_F3", "GUI_CMD_DISCONNECT"}

PushButtons(build) ==
  IF build = "Firehorn" THEN FirehornPushButtons ELSE IcarusPushButtons

(* getOrderIdFromGui: the order of a field a push button may name.  The    *)
(* valves' cases are left out; a field that is not there throws.           *)
FirehornOrders ==
  [GUI_CMD_CALIBRATE     |-> "AV_CMD_CALIBRATE",
   GUI_CMD_LAUNCH        |-> "AV_CMD_LAUNCH",
   GUI_CMD_RECOVER       |-> "AV_CMD_RECOVER",
   GUI_CMD_ARM           |-> "AV_CMD_ARM",
   GUI_CMD_PRESSURIZE    |-> "AV_CMD_PRESSURIZE",
   GUI_CMD_ABORT         |-> "AV_CMD_ABORT",
   GUI_CMD_GSE_IDLE      |-> "GSE_CMD_IDLE",
   GUI_CMD_GSE_CALIBRATE |-> "GSE_CMD_CALIBRATE",
   GUI_CMD_GSE_ARM       |-> "GSE_CMD_ARM",
   GUI_CMD_GSE_PASSIVATE |-> "GSE_CMD_PASSIVATE",
   GUI_CMD_GSE_SERVO1    |-> "GSE_CMD_SERVO_1",
   GUI_CMD_GSE_SERVO2    |-> "GSE_CMD_SERVO_2"]

IcarusOrders ==
  [GUI_CMD_DISCONNECT              |-> "GSE_CMD_DISCONNECT",
   GUI_CMD_HOPPER_TARE_ORIENTATION |-> "HOPPER_CMD_CALIBRATE",
   GUI_CMD_LAUNCH                  |-> "HOPPER_CMD_LAUNCH",
   GUI_CMD_ARM                     |-> "HOPPER_CMD_ARM",
   GUI_CMD_ABORT                   |-> "HOPPER_CMD_ABORT",
   GUI_CMD_HOPPER_IDLE             |-> "HOPPER_CMD_IDLE",
   GUI_CMD_HOPPER_TARE             |-> "HOPPER_CMD_TARE",
   GUI_CMD_HOPPER_HOMING_X         |-> "HOPPER_CMD_HOMING_X",
   GUI_CMD_HOPPER_HOMING_Y         |-> "HOPPER_CMD_HOMING_Y",
   GUI_CMD_HOPPER_HOMING_MAIN_N2O  |-> "HOPPER_CMD_HOMING_MAIN_N2O",
   GUI_CMD_HOPPER_HOMING_MAIN_FUEL |-> "HOPPER_CMD_HOMING_MAIN_FUEL",
   GUI_CMD_HOPPER_SPARE_F1         |-> "HOPPER_CMD_SPARE1",
   GUI_CMD_HOPPER_SPARE_F2         |-> "HOPPER_CMD_SPARE2",
   GUI_CMD_HOPPER_SPARE_F3         |-> "HOPPER_CMD_SPARE3",
   GUI_CMD_GSE_IDLE                |-> "GSE_CMD_IDLE",
   GUI_CMD_GSE_CALIBRATE           |-> "GSE_CMD_CALIBRATE",
   GUI_CMD_GSE_ARM                 |-> "GSE_CMD_ARM",
   GUI_CMD_GSE_PASSIVATE           |-> "GSE_CMD_PASSIVATE"]

(* Mutant of Orders: the table of the other build. *)
OrdersOfTheOther(build) ==
  IF build = "Firehorn" THEN IcarusOrders ELSE FirehornOrders

Orders(build) == IF build = "Firehorn" THEN FirehornOrders ELSE IcarusOrders
=============================================================================
