----------------------------- MODULE DataStorage -----------------------------
(***************************************************************************)
(* Server/src/data_storage.cpp: the class SqliteDB.  Packets get an id     *)
(* that counts from 0 in every process, wait in a buffer per stream and    *)
(* are written in batches, one transaction each, to a database file that   *)
(* outlives the process.  A clean end of the process flushes the buffers   *)
(* and copies the database to the archive; a crash does neither.           *)
(*                                                                         *)
(* The columns of a packet are abstracted: a row is identified by its      *)
(* table and id, and its content by the session that wrote it.  Sessions   *)
(* are numbered 1, 2, ... in the order the processes open the file.        *)
(***************************************************************************)
EXTENDS Integers, Sequences

CONSTANTS
  BATCH_SIZE,    \* packets of a stream written at once
  IdSpace,       \* number of ids a counter distinguishes: 2^32
  MaxPackets,    \* bound: packets per stream and session
  MaxSessions    \* bound: processes that open the database, one by one

ASSUME StorageAssumption ==
  /\ BATCH_SIZE \in Nat \ {0}
  /\ IdSpace \in Nat
  /\ MaxPackets \in Nat
  /\ MaxPackets < IdSpace
  /\ MaxSessions \in Nat \ {0}

(* PacketType, in the order in which the destructor flushes the buffers. *)
Streams == {"AV_UPLINK", "AV_DOWNLINK", "GSE_DOWNLINK"}
FlushOrder == <<"AV_UPLINK", "AV_DOWNLINK", "GSE_DOWNLINK">>

Ids == 0 .. IdSpace - 1
Sessions == 1 .. MaxSessions
NoRow == 0       \* content of a table at an id that has no row

VARIABLES
  phase,      \* "running", "closing" (inside the destructor) or "down"
  session,    \* the latest session
  step,       \* position in the destructor: 1..3 flush, 4 backup
  pkt_id,     \* the id counters
  buffer,     \* ids of the packets in each buffer, oldest first
  table,      \* table[s][i]: session whose packet is in row i, or NoRow
  archives    \* archives[k]: the copy session k made, or NoArchive

vars == <<phase, session, step, pkt_id, buffer, table, archives>>

Tables == [Streams -> [Ids -> Sessions \cup {NoRow}]]
NoArchive == [s \in Streams |-> <<>>]

TypeOK ==
  /\ phase \in {"running", "closing", "down"}
  /\ session \in Sessions
  /\ step \in 1..4
  /\ pkt_id \in [Streams -> Ids]
  /\ buffer \in [Streams -> Seq(Ids)]
  /\ table \in Tables
  /\ archives \in [Sessions -> Tables \cup {NoArchive}]

(* Mutant of FreshIds: a signed counter. *)
FreshIdsSigned == [s \in Streams |-> -1]

(* The counters are unsigned and start at -1. *)
FreshIds == [s \in Streams |-> IdSpace - 1]
NextId(s) == (pkt_id[s] + 1) % IdSpace

NoPackets == [s \in Streams |-> <<>>]

Init ==
  /\ phase = "running"
  /\ session = 1
  /\ step = 1
  /\ pkt_id = FreshIds
  /\ buffer = NoPackets
  /\ table = [s \in Streams |-> [i \in Ids |-> NoRow]]
  /\ archives = [k \in Sessions |-> NoArchive]

(* Mutant of ReplaceRows: an existing row stays. *)
InsertRows(rows, ids) ==
  [i \in Ids |-> IF rows[i] = NoRow /\ \E n \in 1..Len(ids) : ids[n] = i
                 THEN session ELSE rows[i]]

(* storage.replace of every buffered packet: a row with the id is replaced. *)
ReplaceRows(rows, ids) ==
  [i \in Ids |-> IF \E n \in 1..Len(ids) : ids[n] = i THEN session
                 ELSE rows[i]]

(* flushAvUp, flushAvDown, flushGseDown; an empty buffer is left alone. *)
Flush(s, ids) ==
  /\ table' = [table EXCEPT ![s] = ReplaceRows(@, ids)]
  /\ buffer' = [buffer EXCEPT ![s] = <<>>]

(* Mutant of WritePkt: the full buffer is noticed one packet late. *)
WritePktLate(s) ==
  LET ids == Append(buffer[s], NextId(s)) IN
  /\ phase = "running"
  /\ NextId(s) < MaxPackets
  /\ pkt_id' = [pkt_id EXCEPT ![s] = NextId(s)]
  /\ IF Len(buffer[s]) >= BATCH_SIZE
     THEN Flush(s, ids)
     ELSE buffer' = [buffer EXCEPT ![s] = ids] /\ UNCHANGED table
  /\ UNCHANGED <<phase, session, step, archives>>

(***************************************************************************)
(* process_pkt and write_pkt, which the server always calls as one: the    *)
(* packet gets the next id, is buffered, and a full buffer is flushed.     *)
(***************************************************************************)
WritePkt(s) ==
  LET ids == Append(buffer[s], NextId(s)) IN
  /\ phase = "running"
  /\ NextId(s) < MaxPackets
  /\ pkt_id' = [pkt_id EXCEPT ![s] = NextId(s)]
  /\ IF Len(ids) >= BATCH_SIZE
     THEN Flush(s, ids)
     ELSE buffer' = [buffer EXCEPT ![s] = ids] /\ UNCHANGED table
  /\ UNCHANGED <<phase, session, step, archives>>

(* quit() is delivered and ~Server deletes the database object. *)
Quit ==
  /\ phase = "running"
  /\ phase' = "closing"
  /\ UNCHANGED <<session, step, pkt_id, buffer, table, archives>>

(* Mutant of FlushStep: a buffer is forgotten. *)
FlushStepUplinkOnly ==
  /\ phase = "closing"
  /\ step \in 1..3
  /\ Flush(FlushOrder[step], buffer[FlushOrder[step]])
  /\ step' = IF step = 1 THEN 3 ELSE step + 1
  /\ UNCHANGED <<phase, session, pkt_id, archives>>

(* The destructor flushes the buffers one after the other ... *)
FlushStep ==
  /\ phase = "closing"
  /\ step \in 1..3
  /\ Flush(FlushOrder[step], buffer[FlushOrder[step]])
  /\ step' = step + 1
  /\ UNCHANGED <<phase, session, pkt_id, archives>>

(* ... and copies the database file. *)
MakeBackup ==
  /\ phase = "closing"
  /\ step = 4
  /\ archives' = [archives EXCEPT ![session] = table]
  /\ phase' = "down"
  /\ UNCHANGED <<session, step, pkt_id, buffer, table>>

(* The process dies, anywhere: an uncaught exception (one thrown by the    *)
(* database included: its transaction is rolled back), a signal, power.    *)
(* SQLite's journal keeps the committed transactions; memory is gone.      *)
Crash ==
  /\ phase # "down"
  /\ phase' = "down"
  /\ buffer' = NoPackets
  /\ pkt_id' = FreshIds
  /\ UNCHANGED <<session, step, table, archives>>

(* The constructor of the next process: sync_schema keeps the rows of the  *)
(* earlier sessions, the counters start over.                              *)
OpenDatabase ==
  /\ phase = "down"
  /\ session < MaxSessions
  /\ phase' = "running"
  /\ session' = session + 1
  /\ step' = 1
  /\ pkt_id' = FreshIds
  /\ buffer' = NoPackets
  /\ UNCHANGED <<table, archives>>

Next ==
  \/ \E s \in Streams : WritePkt(s)
  \/ Quit
  \/ FlushStep
  \/ MakeBackup
  \/ Crash
  \/ OpenDatabase

Spec == Init /\ [][Next]_vars
------------------------------------------------------------------------------

(* Packets of s that the running session has accepted. *)
Issued(s) == NextId(s)

(* Rows of s that hold a packet of the latest session. *)
OwnRows(s) == {i \in Ids : table[s][i] = session}

(* What is on disk of the running session is exactly a prefix of what it   *)
(* accepted, and the buffer holds exactly the rest, in order: no packet is *)
(* skipped, written twice or out of order, across batches and flushes.     *)
PrefixOnDisk ==
  phase # "down" =>
    \A s \in Streams :
      LET first == Issued(s) - Len(buffer[s]) IN
      /\ OwnRows(s) = 0 .. first - 1
      /\ \A n \in 1..Len(buffer[s]) : buffer[s][n] = first + n - 1

(* A crash never costs a stream more than BATCH_SIZE - 1 accepted packets. *)
BoundedLoss ==
  phase # "down" =>
    \A s \in Streams :
      \A i \in 0 .. Issued(s) - BATCH_SIZE : i \in OwnRows(s)

(* Every session starts again at id 0 and replaces rows of the earlier     *)
(* ones, so a table read in id order goes from the latest session back to  *)
(* older ones, without holes: read_all mixes sessions, but never           *)
(* interleaves them, and ids are never missing in between.                 *)
SessionsLayered ==
  \A s \in Streams : \A i, j \in Ids :
    i < j => table[s][i] >= table[s][j]

(* A clean end loses nothing: the archive a session leaves holds, in every *)
(* stream, every packet the session accepted.                              *)
ArchiveComplete ==
  [][\A k \in Sessions :
       archives'[k] # archives[k] =>
         /\ k = session
         /\ \A s \in Streams : \A i \in 0 .. Issued(s) - 1 :
              archives'[k][s][i] = k]_vars

(* The storage implements the log of module PacketLog. *)
SavedPrefix(s) == CHOOSE n \in 0..IdSpace : OwnRows(s) = 0 .. n - 1

LogOpen == phase # "down"
LogSaved == [s \in Streams |-> SavedPrefix(s)]
LogAll == [s \in Streams |-> SavedPrefix(s) + Len(buffer[s])]

Log == INSTANCE PacketLog WITH Stream <- Streams, Batch <- BATCH_SIZE,
                               open <- LogOpen, log <- LogAll,
                               saved <- LogSaved

(* What the storage keeps of a session is what PacketLog promises, for     *)
(* every order of writes, batches, quits and crashes.                      *)
ImplementsPacketLog == Log!Spec
==============================================================================
