-------------------------- MODULE FlightRecord_proof --------------------------
(***************************************************************************)
(* Proofs about FlightRecord.  Every step of the server is a step of the   *)
(* storage or leaves it alone, so that what DataStorage_proof says of the  *)
(* storage holds in the server, and on it rests what is recorded of the    *)
(* packets that left.                                                      *)
(***************************************************************************)
EXTENDS FlightRecord, DataStorage_proof

LEMMA FlightStepIsStorageStep == [FlightNext]_flightVars => [Next]_vars
<1> SUFFICES ASSUME [FlightNext]_flightVars PROVE [Next]_vars
  OBVIOUS
<1>1. ASSUME NEW s \in Streams, RecordPacket(s) PROVE Next
  BY <1>1 DEF RecordPacket, Next
<1>2. ASSUME NEW s \in Streams, PassOn(s) PROVE UNCHANGED vars
  BY <1>2 DEF PassOn
<1>3. CASE CleanEnd
  BY <1>3 DEF CleanEnd, Next
<1>4. CASE ServerDies
  BY <1>4 DEF ServerDies, Next
<1>5. CASE NewSession
  BY <1>5 DEF NewSession, Next
<1>6. CASE UNCHANGED flightVars
  BY <1>6 DEF flightVars, vars
<1> QED BY <1>1, <1>2, <1>3, <1>4, <1>5, <1>6 DEF FlightNext

(* The server uses the storage as DataStorage says: all its properties     *)
(* hold in the server, for every interleaving of orders and telemetry.     *)
THEOREM FlightUsesStorage == FlightSpec => Spec
<1>1. FlightInit => Init
  BY DEF FlightInit
<1> QED BY <1>1, FlightStepIsStorageStep, PTL DEF FlightSpec, Spec

(* What the storage promises as a log, the server keeps too. *)
THEOREM FlightImplementsLog == FlightSpec => ImplementsPacketLog
BY FlightUsesStorage, StorageImplementsLog
------------------------------------------------------------------------------

HandlerTypeOK ==
  /\ current \in Streams \cup {NoStream}
  /\ known \in [Streams -> 0..MaxPackets]

(* Within a session, a row of the session stays one. *)
LEMMA RowsStay ==
  ASSUME Next, ~OpenDatabase, TypeOK
  PROVE  /\ session' = session
         /\ \A s \in Streams : \A i \in Ids :
              table[s][i] = session => table'[s][i] = session
<1>0. table \in [Streams -> [Ids -> Sessions \cup {NoRow}]]
  BY DEF TypeOK, Tables
<1>1. ASSUME NEW s \in Streams, NEW ids, Flush(s, ids),
             NEW t \in Streams, NEW i \in Ids, table[t][i] = session
      PROVE table'[t][i] = session
  <2>1. table' = [table EXCEPT ![s] = ReplaceRows(@, ids)]
    BY <1>1 DEF Flush
  <2>2. CASE t # s
    BY <1>0, <1>1, <2>1, <2>2
  <2>3. CASE t = s
    <3>1. table'[t] = ReplaceRows(table[t], ids)
      BY <1>0, <2>1, <2>3
    <3> QED BY <3>1, <1>1 DEF ReplaceRows
  <2> QED BY <2>2, <2>3
<1>2. ASSUME NEW s \in Streams, WritePkt(s)
      PROVE /\ session' = session
            /\ \A t \in Streams : \A i \in Ids :
                 table[t][i] = session => table'[t][i] = session
  <2>1. session' = session
    BY <1>2 DEF WritePkt
  <2>2. UNCHANGED table \/ Flush(s, Append(buffer[s], NextId(s)))
    BY <1>2 DEF WritePkt
  <2> QED BY <1>1, <2>1, <2>2
<1>3. ASSUME FlushStep
      PROVE /\ session' = session
            /\ \A t \in Streams : \A i \in Ids :
                 table[t][i] = session => table'[t][i] = session
  <2>1. session' = session
    BY <1>3 DEF FlushStep
  <2>2. FlushOrder[step] \in Streams
    BY <1>3, StreamsOf DEF FlushStep
  <2>3. Flush(FlushOrder[step], buffer[FlushOrder[step]])
    BY <1>3 DEF FlushStep
  <2> QED BY <1>1, <2>1, <2>2, <2>3
<1>4. Quit \/ MakeBackup \/ Crash => UNCHANGED <<session, table>>
  BY DEF Quit, MakeBackup, Crash
<1> QED BY <1>2, <1>3, <1>4 DEF Next

LEMMA FlightKeeps ==
  ASSUME IInv, BoundedLoss, HandlerTypeOK, KnownIsRecorded,
         [FlightNext]_flightVars
  PROVE  HandlerTypeOK' /\ KnownIsRecorded'
<1>0. /\ BATCH_SIZE \in Nat \ {0}
      /\ MaxPackets \in Nat
      /\ \A n \in 0..MaxPackets : \A i \in 0 .. n - BATCH_SIZE : i \in Ids
  BY StorageAssumption DEF Ids
<1>1. TypeOK
  BY DEF IInv
<1>2. ASSUME UNCHANGED known, Next, ~OpenDatabase
      PROVE KnownIsRecorded'
  <2>1. /\ session' = session
        /\ \A s \in Streams : \A i \in Ids :
             table[s][i] = session => table'[s][i] = session
    BY <1>1, <1>2, RowsStay
  <2> SUFFICES ASSUME NEW s \in Streams, NEW i \in 0 .. known'[s] - BATCH_SIZE
               PROVE table'[s][i] = session'
    BY DEF KnownIsRecorded
  <2>2. known'[s] = known[s] /\ known[s] \in 0..MaxPackets
    BY <1>2 DEF HandlerTypeOK
  <2>3. i \in Ids /\ table[s][i] = session
    BY <1>0, <2>2 DEF KnownIsRecorded
  <2> QED BY <2>1, <2>3
<1>3. ASSUME NEW s \in Streams, RecordPacket(s)
      PROVE HandlerTypeOK' /\ KnownIsRecorded'
  <2>1. UNCHANGED known /\ current' = s /\ Next
    BY <1>3 DEF RecordPacket, Next
  <2>2. ~OpenDatabase
    BY <1>3 DEF RecordPacket, WritePkt, OpenDatabase
  <2>3. HandlerTypeOK'
    BY <2>1 DEF HandlerTypeOK
  <2> QED BY <1>2, <2>1, <2>2, <2>3
<1>4. ASSUME NEW s \in Streams, PassOn(s)
      PROVE HandlerTypeOK' /\ KnownIsRecorded'
  <2>1. /\ phase = "running"
        /\ current' = NoStream
        /\ UNCHANGED <<table, session>>
        /\ known' = known \/ known' = [known EXCEPT ![s] = Issued(s)]
    BY <1>4 DEF PassOn, vars
  <2>2. Issued(s) \in 0..MaxPackets
    <3>1. NextId(s) \in Ids /\ NextId(s) <= MaxPackets
      BY <1>1, NextIdType DEF IInv, IdsBounded
    <3> QED BY <1>0, <3>1 DEF Issued, Ids
  <2>3. HandlerTypeOK'
    BY <2>1, <2>2 DEF HandlerTypeOK
  <2>4. ASSUME NEW t \in Streams, NEW i \in 0 .. known'[t] - BATCH_SIZE
        PROVE table'[t][i] = session'
    <3>1. CASE known'[t] = known[t]
      BY <2>1, <2>4, <3>1 DEF KnownIsRecorded
    <3>2. CASE known'[t] # known[t]
      <4>1. t = s /\ known'[t] = Issued(t)
        BY <2>1, <3>2 DEF HandlerTypeOK
      <4>2. i \in OwnRows(t)
        BY <2>1, <2>4, <4>1 DEF BoundedLoss
      <4> QED BY <2>1, <4>2 DEF OwnRows
    <3> QED BY <3>1, <3>2
  <2> QED BY <2>3, <2>4 DEF KnownIsRecorded
<1>5. CASE CleanEnd
  <2>1. UNCHANGED <<current, known>> /\ Next /\ ~OpenDatabase
    BY <1>5 DEF CleanEnd, Next, Quit, FlushStep, MakeBackup, OpenDatabase
  <2>2. HandlerTypeOK'
    BY <2>1 DEF HandlerTypeOK
  <2> QED BY <1>2, <2>1, <2>2
<1>6. CASE ServerDies
  <2>1. current' = NoStream /\ UNCHANGED known /\ Next /\ ~OpenDatabase
    BY <1>6 DEF ServerDies, Next, Crash, OpenDatabase
  <2>2. HandlerTypeOK'
    BY <2>1 DEF HandlerTypeOK
  <2> QED BY <1>2, <2>1, <2>2
<1>7. CASE NewSession
  <2>1. known' = NothingKnown /\ UNCHANGED current
    BY <1>7 DEF NewSession
  <2>2. HandlerTypeOK'
    BY <1>0, <2>1 DEF HandlerTypeOK, NothingKnown
  <2>3. \A s \in Streams : 0 .. known'[s] - BATCH_SIZE = {}
    BY <1>0, <2>1 DEF NothingKnown
  <2> QED BY <2>2, <2>3 DEF KnownIsRecorded
<1>8. CASE UNCHANGED flightVars
  BY <1>8 DEF flightVars, HandlerTypeOK, KnownIsRecorded
<1> QED BY <1>3, <1>4, <1>5, <1>6, <1>7, <1>8 DEF FlightNext

LEMMA FlightInvariant == FlightSpec => [](HandlerTypeOK /\ KnownIsRecorded)
<1>1. FlightInit => HandlerTypeOK /\ KnownIsRecorded
  <2> SUFFICES ASSUME FlightInit PROVE HandlerTypeOK /\ KnownIsRecorded
    OBVIOUS
  <2>1. HandlerTypeOK
    BY StorageAssumption DEF FlightInit, HandlerTypeOK, NothingKnown
  <2>2. \A s \in Streams : 0 .. known[s] - BATCH_SIZE = {}
    BY StorageAssumption DEF FlightInit, NothingKnown
  <2> QED BY <2>1, <2>2 DEF KnownIsRecorded
<1>2. FlightSpec => [](IInv /\ BoundedLoss)
  BY FlightUsesStorage, StorageInvariant, StorageBoundedLoss, PTL
<1>3. (IInv /\ BoundedLoss) /\ (HandlerTypeOK /\ KnownIsRecorded)
        /\ [FlightNext]_flightVars => (HandlerTypeOK /\ KnownIsRecorded)'
  BY FlightKeeps
<1> QED BY <1>1, <1>2, <1>3, PTL DEF FlightSpec

(* Type correctness of the server with its storage. *)
THEOREM FlightTypes == FlightSpec => []FlightTypeOK
<1>1. TypeOK /\ HandlerTypeOK => FlightTypeOK
  BY DEF FlightTypeOK, HandlerTypeOK
<1> QED BY <1>1, FlightInvariant, FlightUsesStorage, StorageTypeOK, PTL

(* Whatever left the server is on disk, but for fewer packets of a stream  *)
(* than a batch, and the end of the process does not change that.          *)
THEOREM FlightKnownIsRecorded == FlightSpec => []KnownIsRecorded
BY FlightInvariant, PTL
==============================================================================
