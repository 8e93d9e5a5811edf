----------------------------- MODULE FlightRecord -----------------------------
(***************************************************************************)
(* The server and its storage: an order of a client or a telemetry packet  *)
(* is recorded (module DataStorage) and then leaves the server, for the    *)
(* radio board or for the subscribed clients.  Nothing comes between the   *)
(* two but the end of the process.                                         *)
(*                                                                         *)
(* A fan-out handles further requests while it waits for a socket, but no  *)
(* serial data; its packet counts as left by then.                         *)
(*                                                                         *)
(* Two kinds of packet leave without being recorded and have no id here:   *)
(* those of the abort loop (server.cpp:419-423), and, in the Icarus build, *)
(* the telemetry of the ground segment (RequestAdapter.cpp:490, 501).      *)
(***************************************************************************)
EXTENDS DataStorage

VARIABLES
  current,    \* stream whose packet is recorded and about to leave, or NoStream
  known       \* history: known[s], the first id after the packets that left

flightVars == <<phase, session, step, pkt_id, buffer, table, archives,
                current, known>>

NoStream == "none"
NothingKnown == [s \in Streams |-> 0]

FlightTypeOK ==
  /\ TypeOK
  /\ current \in Streams \cup {NoStream}
  /\ known \in [Streams -> 0..MaxPackets]

FlightInit ==
  /\ Init
  /\ current = NoStream
  /\ known = NothingKnown

(* Mutant of RecordPacket: the packet is passed on first and then recorded. *)
PassOnFirst(s) ==
  \/ /\ current = NoStream
     /\ phase = "running"
     /\ NextId(s) < MaxPackets
     /\ current' = s
     /\ known' = [known EXCEPT ![s] = NextId(s) + 1]
     /\ UNCHANGED vars
  \/ /\ current = s
     /\ WritePkt(s)
     /\ current' = NoStream
     /\ UNCHANGED known

(* handleCommand for an order, process_packet for telemetry: the packet is *)
(* recorded.  A command without an order throws before that and the        *)
(* process dies: a Crash.                                                  *)
RecordPacket(s) ==
  /\ current = NoStream
  /\ WritePkt(s)
  /\ current' = s
  /\ UNCHANGED known

(* sendSerialPacket writes the order, unless the port is closed;           *)
(* updateSubscriptions writes the telemetry, if anyone has subscribed.     *)
PassOn(s) ==
  /\ current = s
  /\ phase = "running"
  /\ known' \in {known, [known EXCEPT ![s] = Issued(s)]}
  /\ current' = NoStream
  /\ UNCHANGED vars

(* The event loop returns and the server is destroyed. *)
CleanEnd ==
  /\ current = NoStream
  /\ Quit \/ FlushStep \/ MakeBackup
  /\ UNCHANGED <<current, known>>

ServerDies ==
  /\ Crash
  /\ current' = NoStream
  /\ UNCHANGED known

NewSession ==
  /\ OpenDatabase
  /\ known' = NothingKnown
  /\ UNCHANGED current

FlightNext ==
  \/ \E s \in Streams : RecordPacket(s) \/ PassOn(s)
  \/ CleanEnd
  \/ ServerDies
  \/ NewSession

FlightSpec == FlightInit /\ [][FlightNext]_flightVars
------------------------------------------------------------------------------

(* Of the orders the radio board was sent, and of the telemetry the        *)
(* clients were shown, fewer than BATCH_SIZE packets of a stream are       *)
(* missing on disk, also after the server has died and until the next      *)
(* session: what is BATCH_SIZE - 1 packets older than one that left the    *)
(* server is safe.                                                         *)
KnownIsRecorded ==
  \A s \in Streams : \A i \in 0 .. known[s] - BATCH_SIZE : table[s][i] = session
==============================================================================
