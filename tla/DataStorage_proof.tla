-------------------------- MODULE DataStorage_proof --------------------------
(***************************************************************************)
(* Proofs about DataStorage, for every batch size, id space and number of  *)
(* packets and sessions.                                                   *)
(***************************************************************************)
EXTENDS DataStorage, TLAPS

(* The id of the oldest packet that waits in the buffer of s. *)
First(s) == NextId(s) - Len(buffer[s])

IdsBounded == \A s \in Streams : NextId(s) <= MaxPackets

(* Each buffer holds fewer packets than a batch, numbered in a row up to   *)
(* the latest id.                                                          *)
BufferOrdered ==
  \A s \in Streams :
    /\ Len(buffer[s]) < BATCH_SIZE
    /\ Len(buffer[s]) <= NextId(s)
    /\ \A n \in 1..Len(buffer[s]) : buffer[s][n] = First(s) + n - 1

(* The rows of the latest session are those below some m.  A crash forgets *)
(* the buffers, so m is tied to them only while the process lives.         *)
RowsOwned ==
  \A s \in Streams : \E m \in 0..IdSpace :
    /\ phase # "down" => m = First(s)
    /\ \A i \in Ids : table[s][i] = session <=> i < m

NoLaterSession == \A s \in Streams : \A i \in Ids : table[s][i] <= session

Flushed ==
  /\ phase = "running" => step = 1
  /\ phase = "closing" => \A k \in 1..3 : k < step => buffer[FlushOrder[k]] = <<>>
  /\ phase = "down" => buffer = NoPackets

IInv ==
  /\ TypeOK
  /\ IdsBounded
  /\ BufferOrdered
  /\ RowsOwned
  /\ SessionsLayered
  /\ NoLaterSession
  /\ Flushed
------------------------------------------------------------------------------

(* Arithmetic of the unsigned counters. *)
LEMMA ModSucc ==
  ASSUME NEW M \in Nat, M > 0, NEW p \in 0 .. M - 1
  PROVE  (p + 1) % M = IF p = M - 1 THEN 0 ELSE p + 1
BY SMT

LEMMA NextIdType ==
  ASSUME TypeOK, NEW s \in Streams
  PROVE  NextId(s) \in Ids
<1>1. pkt_id[s] \in 0 .. IdSpace - 1
  BY DEF TypeOK, Ids
<1>2. IdSpace \in Nat /\ IdSpace > 0
  BY StorageAssumption
<1> QED BY <1>1, <1>2, ModSucc DEF NextId, Ids

(* In a new process the next id is 0. *)
LEMMA FreshNextId ==
  ASSUME NEW s \in Streams
  PROVE  (FreshIds[s] + 1) % IdSpace = 0
<1>1. IdSpace \in Nat /\ IdSpace > 0
  BY StorageAssumption
<1>2. FreshIds[s] = IdSpace - 1
  BY DEF FreshIds
<1> QED BY <1>1, <1>2, ModSucc

LEMMA FreshIdsType == FreshIds \in [Streams -> Ids]
BY StorageAssumption DEF FreshIds, Ids

LEMMA StreamsOf == \A k \in 1..3 : FlushOrder[k] \in Streams
BY DEF FlushOrder, Streams

LEMMA EachStreamFlushed == \A s \in Streams : \E k \in 1..3 : FlushOrder[k] = s
<1>1. FlushOrder[1] = "AV_UPLINK" /\ FlushOrder[2] = "AV_DOWNLINK"
        /\ FlushOrder[3] = "GSE_DOWNLINK"
  BY DEF FlushOrder
<1>2. 1 \in 1..3 /\ 2 \in 1..3 /\ 3 \in 1..3
  OBVIOUS
<1> QED BY <1>1, <1>2 DEF Streams

(* A batch that continues the rows of the session extends them by exactly  *)
(* the batch, and keeps the order of the sessions.                         *)
LEMMA ReplaceRowsExtends ==
  ASSUME TypeOK, NEW s \in Streams, NEW first \in Nat, NEW ids \in Seq(Ids),
         \A i \in Ids : table[s][i] = session <=> i < first,
         \A i \in Ids : table[s][i] <= session,
         \A i, j \in Ids : i < j => table[s][i] >= table[s][j],
         \A n \in 1..Len(ids) : ids[n] = first + n - 1
  PROVE  LET rows == ReplaceRows(table[s], ids) IN
         /\ rows \in [Ids -> Sessions \cup {NoRow}]
         /\ \A i \in Ids : rows[i] = session <=> i < first + Len(ids)
         /\ \A i \in Ids : rows[i] <= session
         /\ \A i, j \in Ids : i < j => rows[i] >= rows[j]
<1> DEFINE rows == ReplaceRows(table[s], ids)
<1>0. Len(ids) \in Nat
  OBVIOUS
<1>1. /\ session \in Sessions
      /\ table[s] \in [Ids -> Sessions \cup {NoRow}]
  BY DEF TypeOK, Tables
<1>2. \A i \in Ids : rows[i] = IF \E n \in 1..Len(ids) : ids[n] = i
                               THEN session ELSE table[s][i]
  BY DEF ReplaceRows
<1>3. rows \in [Ids -> Sessions \cup {NoRow}]
  BY <1>1 DEF ReplaceRows
<1>4. ASSUME NEW i \in Ids
      PROVE (\E n \in 1..Len(ids) : ids[n] = i)
              <=> first <= i /\ i < first + Len(ids)
  <2>1. i \in Int
    BY DEF Ids
  <2>2. ASSUME first <= i, i < first + Len(ids)
        PROVE \E n \in 1..Len(ids) : ids[n] = i
    <3>1. i - first + 1 \in 1..Len(ids)
      BY <1>0, <2>1, <2>2
    <3>2. ids[i - first + 1] = i
      BY <3>1, <2>1
    <3> QED BY <3>1, <3>2
  <2>3. ASSUME NEW n \in 1..Len(ids), ids[n] = i
        PROVE first <= i /\ i < first + Len(ids)
    BY <1>0, <2>1, <2>3
  <2> QED BY <2>2, <2>3
<1>5. ASSUME NEW i \in Ids
      PROVE rows[i] = session <=> i < first + Len(ids)
  <2>1. i \in Int
    BY DEF Ids
  <2> QED BY <1>0, <1>2, <1>4, <2>1
<1>6. \A i \in Ids : rows[i] <= session
  BY <1>1, <1>2 DEF Sessions
<1>7. ASSUME NEW i \in Ids, NEW j \in Ids, i < j
      PROVE rows[i] >= rows[j]
  <2>1. i \in Int /\ j \in Int
    BY DEF Ids
  <2>2. session \in Nat /\ rows[j] \in Nat /\ rows[i] \in Nat
    BY <1>1, <1>3, StorageAssumption DEF Sessions, NoRow
  <2>3. CASE rows[i] = session
    BY <2>2, <2>3, <1>6
  <2>4. CASE rows[i] # session
    <3>1. rows[j] # session
      BY <1>0, <1>5, <2>1, <2>4, <1>7
    <3>2. rows[i] = table[s][i] /\ rows[j] = table[s][j]
      BY <1>2, <2>4, <3>1
    <3> QED BY <3>2, <1>7
  <2> QED BY <2>3, <2>4
<1> QED BY <1>3, <1>5, <1>6, <1>7
------------------------------------------------------------------------------

LEMMA InitIInv == Init => IInv
<1> SUFFICES ASSUME Init PROVE IInv
  OBVIOUS
<1>1. TypeOK
  <2>1. 1 \in Sessions
    BY StorageAssumption DEF Sessions
  <2>2. table \in Tables /\ NoPackets \in [Streams -> Seq(Ids)]
    BY DEF Init, Tables, NoPackets
  <2>3. archives \in [Sessions -> Tables \cup {NoArchive}]
    BY DEF Init
  <2> QED BY <2>1, <2>2, <2>3, FreshIdsType DEF Init, TypeOK
<1>2. ASSUME NEW s \in Streams
      PROVE /\ NextId(s) = 0
            /\ buffer[s] = <<>>
            /\ \A i \in Ids : table[s][i] = 0
  BY FreshNextId DEF Init, NextId, NoPackets, NoRow
<1>3. IdsBounded /\ BufferOrdered
  BY <1>2, StorageAssumption DEF IdsBounded, BufferOrdered, First
<1>4. RowsOwned
  <2> SUFFICES ASSUME NEW s \in Streams
               PROVE \E m \in 0..IdSpace :
                       /\ phase # "down" => m = First(s)
                       /\ \A i \in Ids : table[s][i] = session <=> i < m
    BY DEF RowsOwned
  <2>1. First(s) = 0 /\ 0 \in 0..IdSpace
    BY <1>2, StorageAssumption DEF First
  <2>2. \A i \in Ids : table[s][i] = session <=> i < 0
    BY <1>2 DEF Init, Ids
  <2> QED BY <2>1, <2>2
<1>5. SessionsLayered /\ NoLaterSession
  BY <1>2 DEF Init, SessionsLayered, NoLaterSession
<1>6. Flushed
  BY DEF Init, Flushed
<1> QED BY <1>1, <1>3, <1>4, <1>5, <1>6 DEF IInv

(* A batch written for s: ids continue the rows of s and lead up to the    *)
(* next id.                                                                *)
LEMMA FlushKeeps ==
  ASSUME IInv, phase # "down", NEW s \in Streams, NEW ids \in Seq(Ids),
         Flush(s, ids),
         \A n \in 1..Len(ids) : ids[n] = First(s) + n - 1,
         First(s) + Len(ids) = NextId(s)',
         NextId(s)' <= MaxPackets,
         \A t \in Streams : t # s => NextId(t)' = NextId(t),
         UNCHANGED session, phase' = phase,
         pkt_id' \in [Streams -> Ids]
  PROVE  /\ table' \in Tables
         /\ buffer' \in [Streams -> Seq(Ids)]
         /\ IdsBounded'
         /\ BufferOrdered'
         /\ RowsOwned'
         /\ SessionsLayered'
         /\ NoLaterSession'
<1> DEFINE rows == ReplaceRows(table[s], ids)
<1>1. /\ TypeOK
      /\ table \in [Streams -> [Ids -> Sessions \cup {NoRow}]]
      /\ buffer \in [Streams -> Seq(Ids)]
  BY DEF IInv, TypeOK, Tables
<1>2. /\ table' = [table EXCEPT ![s] = rows]
      /\ buffer' = [buffer EXCEPT ![s] = <<>>]
  BY DEF Flush
<1>3. PICK m \in 0..IdSpace :
        /\ m = First(s)
        /\ \A i \in Ids : table[s][i] = session <=> i < m
  BY DEF IInv, RowsOwned
<1>4. First(s) \in Nat
  BY <1>3, StorageAssumption
<1>5. /\ rows \in [Ids -> Sessions \cup {NoRow}]
      /\ \A i \in Ids : rows[i] = session <=> i < First(s) + Len(ids)
      /\ \A i \in Ids : rows[i] <= session
      /\ \A i, j \in Ids : i < j => rows[i] >= rows[j]
  <2>1. /\ \A i \in Ids : table[s][i] <= session
        /\ \A i, j \in Ids : i < j => table[s][i] >= table[s][j]
    BY DEF IInv, NoLaterSession, SessionsLayered
  <2> QED BY <1>1, <1>3, <1>4, <2>1, ReplaceRowsExtends
<1> HIDE DEF rows
<1>6. /\ table'[s] = rows
      /\ buffer'[s] = <<>>
      /\ \A t \in Streams : t # s => table'[t] = table[t] /\ buffer'[t] = buffer[t]
  BY <1>1, <1>2
<1>7. table' \in Tables /\ buffer' \in [Streams -> Seq(Ids)]
  BY <1>1, <1>2, <1>5 DEF Tables
<1>8. IdsBounded'
  BY DEF IInv, IdsBounded
<1>9. NextId(s)' \in Nat /\ First(s)' = NextId(s)'
  <2>1. Len(ids) \in Nat
    OBVIOUS
  <2>2. First(s)' = NextId(s)' - Len(buffer'[s])
    BY DEF First
  <2> QED BY <1>4, <1>6, <2>1, <2>2
<1>10. \A t \in Streams : t # s => First(t)' = First(t)
  BY <1>6 DEF First
<1>11. BufferOrdered'
  <2> SUFFICES ASSUME NEW t \in Streams
               PROVE /\ Len(buffer'[t]) < BATCH_SIZE
                     /\ Len(buffer'[t]) <= NextId(t)'
                     /\ \A n \in 1..Len(buffer'[t]) :
                          buffer'[t][n] = First(t)' + n - 1
    BY DEF BufferOrdered
  <2>1. CASE t = s
    BY <1>6, <1>9, <2>1, StorageAssumption
  <2>2. CASE t # s
    BY <1>6, <1>10, <2>2 DEF IInv, BufferOrdered
  <2> QED BY <2>1, <2>2
<1>12. RowsOwned'
  <2> SUFFICES ASSUME NEW t \in Streams
               PROVE \E k \in 0..IdSpace :
                       /\ phase' # "down" => k = First(t)'
                       /\ \A i \in Ids : table'[t][i] = session' <=> i < k
    BY DEF RowsOwned
  <2>1. CASE t = s
    <3>1. First(s)' \in 0..IdSpace
      BY <1>9, StorageAssumption
    <3>2. \A i \in Ids : table'[s][i] = session' <=> i < First(s)'
      BY <1>5, <1>6, <1>9
    <3> QED BY <2>1, <3>1, <3>2
  <2>2. CASE t # s
    <3>1. PICK k \in 0..IdSpace :
            /\ phase # "down" => k = First(t)
            /\ \A i \in Ids : table[t][i] = session <=> i < k
      BY DEF IInv, RowsOwned
    <3>2. table'[t] = table[t] /\ First(t)' = First(t)
      BY <1>6, <1>10, <2>2
    <3> QED BY <3>1, <3>2
  <2> QED BY <2>1, <2>2
<1>13. SessionsLayered'
  <2> SUFFICES ASSUME NEW t \in Streams, NEW i \in Ids, NEW j \in Ids, i < j
               PROVE table'[t][i] >= table'[t][j]
    BY DEF SessionsLayered
  <2>1. CASE t = s
    BY <1>5, <1>6, <2>1
  <2>2. CASE t # s
    BY <1>6, <2>2 DEF IInv, SessionsLayered
  <2> QED BY <2>1, <2>2
<1>14. NoLaterSession'
  BY <1>5, <1>6 DEF IInv, NoLaterSession
<1> QED BY <1>7, <1>8, <1>11, <1>12, <1>13, <1>14

(* Nothing a step leaves alone can break these. *)
LEMMA UnchangedKeeps ==
  ASSUME IInv, phase' = "down" \/ phase # "down",
         UNCHANGED <<session, pkt_id, buffer, table>>
  PROVE  /\ IdsBounded'
         /\ BufferOrdered'
         /\ RowsOwned'
         /\ SessionsLayered'
         /\ NoLaterSession'
<1>1. \A s \in Streams : NextId(s)' = NextId(s) /\ First(s)' = First(s)
  BY DEF NextId, First
<1>2. IdsBounded' /\ BufferOrdered'
  BY <1>1 DEF IInv, IdsBounded, BufferOrdered
<1>3. RowsOwned'
  <2> SUFFICES ASSUME NEW s \in Streams
               PROVE \E m \in 0..IdSpace :
                       /\ phase' # "down" => m = First(s)'
                       /\ \A i \in Ids : table'[s][i] = session' <=> i < m
    BY DEF RowsOwned
  <2>1. PICK m \in 0..IdSpace :
          /\ phase # "down" => m = First(s)
          /\ \A i \in Ids : table[s][i] = session <=> i < m
    BY DEF IInv, RowsOwned
  <2> QED BY <1>1, <2>1
<1>4. SessionsLayered' /\ NoLaterSession'
  BY DEF IInv, SessionsLayered, NoLaterSession
<1> QED BY <1>2, <1>3, <1>4

(* write_pkt moves the counter of its stream on by one: 2^32 is not        *)
(* reached.                                                                *)
LEMMA WritePktAdvances ==
  ASSUME IInv, NEW s \in Streams, WritePkt(s)
  PROVE  /\ NextId(s) \in Ids
         /\ pkt_id' \in [Streams -> Ids]
         /\ NextId(s)' = NextId(s) + 1
         /\ NextId(s)' <= MaxPackets
         /\ \A t \in Streams : t # s => NextId(t)' = NextId(t)
<1>0. TypeOK
  BY DEF IInv
<1>1. /\ NextId(s) < MaxPackets
      /\ pkt_id' = [pkt_id EXCEPT ![s] = NextId(s)]
  BY DEF WritePkt
<1>2. NextId(s) \in Ids
  BY <1>0, NextIdType
<1>3. pkt_id' \in [Streams -> Ids]
  BY <1>0, <1>1, <1>2 DEF TypeOK
<1>4. NextId(s)' = NextId(s) + 1
  <2>1. IdSpace \in Nat /\ IdSpace > 0 /\ MaxPackets \in Nat /\ MaxPackets < IdSpace
    BY StorageAssumption
  <2>2. pkt_id'[s] = NextId(s)
    BY <1>0, <1>1 DEF TypeOK
  <2>3. (NextId(s) + 1) % IdSpace = NextId(s) + 1
    <3> HIDE DEF NextId
    <3> QED BY <1>1, <1>2, <2>1, ModSucc DEF Ids
  <2> QED BY <2>2, <2>3 DEF NextId
<1>5. \A t \in Streams : t # s => NextId(t)' = NextId(t)
  BY <1>0, <1>1 DEF NextId, TypeOK
<1>6. NextId(s)' <= MaxPackets
  <2>1. NextId(s) \in Int /\ MaxPackets \in Int
    BY <1>2, StorageAssumption DEF Ids
  <2> QED BY <1>1, <1>4, <2>1
<1> QED BY <1>2, <1>3, <1>4, <1>5, <1>6

LEMMA WritePktKeeps ==
  ASSUME IInv, NEW s \in Streams, WritePkt(s)
  PROVE  IInv'
<1> DEFINE ids == Append(buffer[s], NextId(s))
<1>0. TypeOK /\ BufferOrdered /\ IdsBounded
  BY DEF IInv
<1>1. /\ phase = "running" /\ phase' = phase
      /\ UNCHANGED <<session, step, archives>>
  BY DEF WritePkt
<1>2. NextId(s) \in Ids
  BY WritePktAdvances
<1>3. pkt_id' \in [Streams -> Ids]
  BY WritePktAdvances
<1>4. NextId(s)' = NextId(s) + 1
  BY WritePktAdvances
<1>5. \A t \in Streams : t # s => NextId(t)' = NextId(t)
  BY WritePktAdvances
<1>6. /\ ids \in Seq(Ids)
      /\ Len(ids) = Len(buffer[s]) + 1
      /\ \A n \in 1..Len(ids) : ids[n] = First(s) + n - 1
  <2>1. buffer[s] \in Seq(Ids) /\ Len(buffer[s]) \in Nat
    BY <1>0 DEF TypeOK
  <2>2. ids \in Seq(Ids) /\ Len(ids) = Len(buffer[s]) + 1
    BY <1>2, <2>1
  <2>3. ASSUME NEW n \in 1..Len(ids)
        PROVE ids[n] = First(s) + n - 1
    <3>1. CASE n = Len(buffer[s]) + 1
      <4>1. ids[n] = NextId(s)
        BY <2>1, <3>1
      <4> HIDE DEF ids
      <4> QED BY <1>2, <2>1, <3>1, <4>1 DEF First, Ids
    <3>2. CASE n # Len(buffer[s]) + 1
      <4>1. n \in 1..Len(buffer[s])
        BY <2>1, <2>2, <3>2
      <4>2. ids[n] = buffer[s][n]
        BY <2>1, <4>1
      <4> QED BY <1>0, <4>1, <4>2 DEF BufferOrdered
    <3> QED BY <3>1, <3>2
  <2> QED BY <2>2, <2>3
<1>7. First(s) + Len(ids) = NextId(s)'
  <2>1. Len(buffer[s]) \in Nat /\ NextId(s) \in Int
    BY <1>0, <1>2 DEF TypeOK, Ids
  <2> HIDE DEF ids
  <2> QED BY <1>4, <1>6, <2>1 DEF First
<1>8. NextId(s)' <= MaxPackets
  BY WritePktAdvances
<1>9. Flushed'
  BY <1>1 DEF Flushed, IInv
<1>10. CASE Len(ids) >= BATCH_SIZE
  <2>1. Flush(s, ids)
    BY <1>10 DEF WritePkt
  <2> HIDE DEF ids
  <2>2. /\ table' \in Tables
        /\ buffer' \in [Streams -> Seq(Ids)]
        /\ IdsBounded' /\ BufferOrdered' /\ RowsOwned'
        /\ SessionsLayered' /\ NoLaterSession'
    BY <1>1, <1>3, <1>5, <1>6, <1>7, <1>8, <2>1, FlushKeeps
  <2>3. TypeOK'
    BY <1>0, <1>1, <1>3, <2>2 DEF TypeOK
  <2> QED BY <1>9, <2>2, <2>3 DEF IInv
<1>11. CASE ~(Len(ids) >= BATCH_SIZE)
  <2>1. buffer' = [buffer EXCEPT ![s] = ids] /\ table' = table
    BY <1>11 DEF WritePkt
  <2> HIDE DEF ids
  <2>2. /\ buffer'[s] = ids
        /\ \A t \in Streams : t # s => buffer'[t] = buffer[t]
        /\ buffer' \in [Streams -> Seq(Ids)]
    BY <1>0, <1>6, <2>1 DEF TypeOK
  <2>3. TypeOK'
    BY <1>0, <1>1, <1>3, <2>1, <2>2 DEF TypeOK
  <2>4. \A t \in Streams : First(t)' = First(t)
    <3>1. First(s)' = NextId(s)' - Len(ids)
      BY <2>2 DEF First
    <3>2. First(s) \in Int /\ Len(ids) \in Int
      BY <1>0, <1>2, <1>6 DEF First, TypeOK, Ids
    <3>3. First(s)' = First(s)
      BY <1>7, <3>1, <3>2
    <3>4. \A t \in Streams : t # s => First(t)' = First(t)
      BY <1>5, <2>2 DEF First
    <3> QED BY <3>3, <3>4
  <2>5. IdsBounded'
    BY <1>0, <1>5, <1>8 DEF IdsBounded
  <2>6. BufferOrdered'
    <3> SUFFICES ASSUME NEW t \in Streams
                 PROVE /\ Len(buffer'[t]) < BATCH_SIZE
                       /\ Len(buffer'[t]) <= NextId(t)'
                       /\ \A n \in 1..Len(buffer'[t]) :
                            buffer'[t][n] = First(t)' + n - 1
      BY DEF BufferOrdered
    <3>1. CASE t = s
      <4>1. Len(ids) < BATCH_SIZE
        BY <1>6, <1>11, StorageAssumption
      <4>2. Len(ids) <= NextId(s)'
        <5>1. /\ Len(buffer[s]) \in Nat
              /\ Len(buffer[s]) <= NextId(s)
              /\ NextId(s) \in Int
          BY <1>0, <1>2 DEF TypeOK, BufferOrdered, Ids
        <5> QED BY <1>4, <1>6, <5>1
      <4> QED BY <1>6, <2>2, <2>4, <3>1, <4>1, <4>2
    <3>2. CASE t # s
      BY <1>0, <1>5, <2>2, <2>4, <3>2 DEF BufferOrdered
    <3> QED BY <3>1, <3>2
  <2>7. RowsOwned'
    <3> SUFFICES ASSUME NEW t \in Streams
                 PROVE \E m \in 0..IdSpace :
                         /\ phase' # "down" => m = First(t)'
                         /\ \A i \in Ids : table'[t][i] = session' <=> i < m
      BY DEF RowsOwned
    <3>1. PICK m \in 0..IdSpace :
            /\ phase # "down" => m = First(t)
            /\ \A i \in Ids : table[t][i] = session <=> i < m
      BY DEF IInv, RowsOwned
    <3> QED BY <1>1, <2>1, <2>4, <3>1
  <2>8. SessionsLayered' /\ NoLaterSession'
    BY <1>1, <2>1 DEF IInv, SessionsLayered, NoLaterSession
  <2> QED BY <1>9, <2>3, <2>5, <2>6, <2>7, <2>8 DEF IInv
<1> QED BY <1>10, <1>11
(* One flush of the destructor, for the stream at its position. *)
LEMMA FlushStepFlushes ==
  ASSUME IInv, FlushStep
  PROVE  \E s \in Streams :
           /\ s = FlushOrder[step]
           /\ Flush(s, buffer[s])
           /\ buffer[s] \in Seq(Ids)
           /\ \A n \in 1..Len(buffer[s]) : buffer[s][n] = First(s) + n - 1
           /\ First(s) + Len(buffer[s]) = NextId(s)'
           /\ NextId(s)' <= MaxPackets
           /\ \A t \in Streams : NextId(t)' = NextId(t)
<1>1. PICK s \in Streams :
        s = FlushOrder[step] /\ Flush(s, buffer[s]) /\ pkt_id' = pkt_id
  BY StreamsOf DEF FlushStep
<1>2. \A t \in Streams : NextId(t)' = NextId(t)
  BY <1>1 DEF NextId
<1>3. /\ buffer[s] \in Seq(Ids)
      /\ \A n \in 1..Len(buffer[s]) : buffer[s][n] = First(s) + n - 1
      /\ NextId(s)' <= MaxPackets
  BY <1>1, <1>2 DEF IInv, TypeOK, BufferOrdered, IdsBounded
<1>4. First(s) + Len(buffer[s]) = NextId(s)'
  <2>1. NextId(s) \in Int /\ Len(buffer[s]) \in Int
    BY <1>1, <1>3, NextIdType DEF IInv, Ids
  <2> QED BY <1>1, <1>2, <2>1 DEF First
<1> QED BY <1>1, <1>2, <1>3, <1>4

LEMMA FlushStepKeeps ==
  ASSUME IInv, FlushStep
  PROVE  IInv'
<1>1. /\ phase = "closing" /\ phase' = phase
      /\ step \in 1..3 /\ step' = step + 1
      /\ UNCHANGED <<session, pkt_id, archives>>
  BY DEF FlushStep
<1>2. PICK s \in Streams :
        /\ s = FlushOrder[step]
        /\ Flush(s, buffer[s])
        /\ buffer[s] \in Seq(Ids)
        /\ \A n \in 1..Len(buffer[s]) : buffer[s][n] = First(s) + n - 1
        /\ First(s) + Len(buffer[s]) = NextId(s)'
        /\ NextId(s)' <= MaxPackets
        /\ \A t \in Streams : NextId(t)' = NextId(t)
  BY FlushStepFlushes
<1>3. pkt_id' \in [Streams -> Ids]
  BY <1>1 DEF IInv, TypeOK
<1>4. /\ table' \in Tables
      /\ buffer' \in [Streams -> Seq(Ids)]
      /\ IdsBounded' /\ BufferOrdered' /\ RowsOwned'
      /\ SessionsLayered' /\ NoLaterSession'
  BY <1>1, <1>2, <1>3, FlushKeeps
<1>5. TypeOK'
  BY <1>1, <1>3, <1>4 DEF IInv, TypeOK
<1>6. Flushed'
  <2> SUFFICES ASSUME NEW k \in 1..3, k < step'
               PROVE buffer'[FlushOrder[k]] = <<>>
    BY <1>1 DEF Flushed
  <2>1. /\ FlushOrder[k] \in Streams
        /\ buffer' = [buffer EXCEPT ![s] = <<>>]
        /\ buffer \in [Streams -> Seq(Ids)]
    BY <1>2, StreamsOf DEF Flush, IInv, TypeOK
  <2>2. CASE k = step
    BY <1>2, <2>1, <2>2
  <2>3. CASE k # step
    <3>1. buffer[FlushOrder[k]] = <<>>
      BY <1>1, <2>3 DEF IInv, Flushed
    <3> QED BY <2>1, <3>1
  <2> QED BY <2>2, <2>3
<1> QED BY <1>4, <1>5, <1>6 DEF IInv

(* When the destructor copies the file, nothing is left in a buffer. *)
LEMMA NothingWaits ==
  ASSUME IInv, MakeBackup
  PROVE  buffer = NoPackets
<1>1. \A k \in 1..3 : buffer[FlushOrder[k]] = <<>>
  BY DEF IInv, Flushed, MakeBackup
<1>2. \A s \in Streams : buffer[s] = <<>>
  BY <1>1, EachStreamFlushed
<1> QED BY <1>2 DEF IInv, TypeOK, NoPackets

LEMMA MakeBackupKeeps ==
  ASSUME IInv, MakeBackup
  PROVE  IInv'
<1>1. TypeOK'
  BY DEF IInv, TypeOK, MakeBackup
<1>2. IdsBounded' /\ BufferOrdered' /\ RowsOwned'
        /\ SessionsLayered' /\ NoLaterSession'
  BY UnchangedKeeps DEF MakeBackup
<1>3. Flushed'
  BY NothingWaits DEF Flushed, MakeBackup
<1> QED BY <1>1, <1>2, <1>3 DEF IInv

LEMMA QuitKeeps ==
  ASSUME IInv, Quit
  PROVE  IInv'
<1>1. TypeOK'
  BY DEF IInv, TypeOK, Quit
<1>2. IdsBounded' /\ BufferOrdered' /\ RowsOwned'
        /\ SessionsLayered' /\ NoLaterSession'
  BY UnchangedKeeps DEF Quit
<1>3. step = 1
  BY DEF Quit, IInv, Flushed
<1>4. Flushed'
  BY <1>3 DEF Flushed, Quit, IInv, TypeOK
<1> QED BY <1>1, <1>2, <1>4 DEF IInv
(* A crash forgets the buffers and the counters; the rows stay. *)
LEMMA CrashKeeps ==
  ASSUME IInv, Crash
  PROVE  IInv'
<1>1. /\ phase # "down" /\ phase' = "down"
      /\ buffer' = NoPackets /\ pkt_id' = FreshIds
      /\ UNCHANGED <<session, step, table, archives>>
  BY DEF Crash
<1>2. TypeOK'
  <2>1. NoPackets \in [Streams -> Seq(Ids)]
    BY DEF NoPackets
  <2> QED BY <1>1, <2>1, FreshIdsType DEF IInv, TypeOK
<1>3. \A s \in Streams : NextId(s)' = 0 /\ buffer'[s] = <<>>
  BY <1>1, FreshNextId DEF NextId, NoPackets
<1>4. IdsBounded' /\ BufferOrdered'
  BY <1>3, StorageAssumption DEF IdsBounded, BufferOrdered, First
<1>5. RowsOwned'
  <2> SUFFICES ASSUME NEW s \in Streams
               PROVE \E m \in 0..IdSpace :
                       \A i \in Ids : table'[s][i] = session' <=> i < m
    BY <1>1 DEF RowsOwned
  <2>1. PICK m \in 0..IdSpace :
          \A i \in Ids : table[s][i] = session <=> i < m
    BY DEF IInv, RowsOwned
  <2> QED BY <1>1, <2>1
<1>6. SessionsLayered' /\ NoLaterSession'
  BY <1>1 DEF IInv, SessionsLayered, NoLaterSession
<1>7. Flushed'
  BY <1>1 DEF Flushed
<1> QED BY <1>2, <1>4, <1>5, <1>6, <1>7 DEF IInv

(* A new session owns no row yet. *)
LEMMA OpenDatabaseKeeps ==
  ASSUME IInv, OpenDatabase
  PROVE  IInv'
<1>1. /\ phase' = "running" /\ step' = 1
      /\ session < MaxSessions /\ session' = session + 1
      /\ buffer' = NoPackets /\ pkt_id' = FreshIds
      /\ UNCHANGED <<table, archives>>
  BY DEF OpenDatabase
<1>2. session \in Nat /\ session' \in Sessions
  BY <1>1, StorageAssumption DEF IInv, TypeOK, Sessions
<1>3. TypeOK'
  <2>1. NoPackets \in [Streams -> Seq(Ids)]
    BY DEF NoPackets
  <2> QED BY <1>1, <1>2, <2>1, FreshIdsType DEF IInv, TypeOK
<1>4. \A s \in Streams : NextId(s)' = 0 /\ buffer'[s] = <<>> /\ First(s)' = 0
  BY <1>1, FreshNextId DEF NextId, NoPackets, First
<1>5. IdsBounded' /\ BufferOrdered'
  BY <1>4, StorageAssumption DEF IdsBounded, BufferOrdered
<1>6. \A s \in Streams : \A i \in Ids : table'[s][i] < session'
  <2> SUFFICES ASSUME NEW s \in Streams, NEW i \in Ids
               PROVE table[s][i] < session + 1
    BY <1>1
  <2>1. table[s][i] <= session /\ table[s][i] \in Int
    BY StorageAssumption
       DEF IInv, NoLaterSession, TypeOK, Tables, Sessions, NoRow
  <2> QED BY <1>2, <2>1
<1>7. RowsOwned'
  <2> SUFFICES ASSUME NEW s \in Streams
               PROVE \E m \in 0..IdSpace :
                       /\ phase' # "down" => m = First(s)'
                       /\ \A i \in Ids : table'[s][i] = session' <=> i < m
    BY DEF RowsOwned
  <2>1. \A i \in Ids : table'[s][i] = session' <=> i < 0
    <3>1. \A i \in Ids : table'[s][i] # session'
      BY <1>2, <1>3, <1>6 DEF TypeOK, Tables, Sessions, NoRow
    <3> QED BY <3>1 DEF Ids
  <2>2. 0 \in 0..IdSpace
    BY StorageAssumption
  <2> QED BY <1>4, <2>1, <2>2
<1>8. SessionsLayered'
  BY <1>1 DEF IInv, SessionsLayered
<1>9. NoLaterSession'
  <2> SUFFICES ASSUME NEW s \in Streams, NEW i \in Ids
               PROVE table'[s][i] <= session'
    BY DEF NoLaterSession
  <2>1. table'[s][i] \in Int /\ session' \in Int
    BY <1>2, <1>3, StorageAssumption DEF TypeOK, Tables, Sessions, NoRow
  <2> QED BY <1>6, <2>1
<1>10. Flushed'
  BY <1>1 DEF Flushed
<1> QED BY <1>3, <1>5, <1>7, <1>8, <1>9, <1>10 DEF IInv

LEMMA StutterKeeps ==
  ASSUME IInv, UNCHANGED vars
  PROVE  IInv'
<1>1. /\ UNCHANGED <<session, pkt_id, buffer, table>>
      /\ phase' = phase /\ step' = step /\ archives' = archives
  BY DEF vars
<1>2. TypeOK'
  BY <1>1 DEF IInv, TypeOK
<1>3. Flushed'
  BY <1>1 DEF IInv, Flushed
<1>4. IdsBounded' /\ BufferOrdered' /\ RowsOwned'
        /\ SessionsLayered' /\ NoLaterSession'
  BY <1>1, UnchangedKeeps
<1> QED BY <1>2, <1>3, <1>4 DEF IInv

LEMMA NextKeeps == IInv /\ [Next]_vars => IInv'
<1> SUFFICES ASSUME IInv, [Next]_vars PROVE IInv'
  OBVIOUS
<1>1. ASSUME NEW s \in Streams, WritePkt(s) PROVE IInv'
  BY <1>1, WritePktKeeps
<1>2. CASE Quit
  BY <1>2, QuitKeeps
<1>3. CASE FlushStep
  BY <1>3, FlushStepKeeps
<1>4. CASE MakeBackup
  BY <1>4, MakeBackupKeeps
<1>5. CASE Crash
  BY <1>5, CrashKeeps
<1>6. CASE OpenDatabase
  BY <1>6, OpenDatabaseKeeps
<1>7. CASE UNCHANGED vars
  BY <1>7, StutterKeeps
<1> QED BY <1>1, <1>2, <1>3, <1>4, <1>5, <1>6, <1>7 DEF Next

(* IInv holds in every reachable state. *)
THEOREM StorageInvariant == Spec => []IInv
BY InitIInv, NextKeeps, PTL DEF Spec

(* Type correctness of the storage, for data_storage.cpp as a whole. *)
THEOREM StorageTypeOK == Spec => []TypeOK
<1>1. IInv => TypeOK
  BY DEF IInv
<1> QED BY <1>1, StorageInvariant, PTL------------------------------------------------------------------------------

(* What is on disk of the running session is a prefix of what it accepted, *)
(* and the buffers hold the rest in order: data_storage.cpp's write_pkt    *)
(* and flush functions lose, repeat and reorder nothing.                   *)
THEOREM StoragePrefix == Spec => []PrefixOnDisk
<1>1. IInv => PrefixOnDisk
  <2> SUFFICES ASSUME IInv, phase # "down", NEW s \in Streams
               PROVE /\ OwnRows(s) = 0 .. First(s) - 1
                     /\ \A n \in 1..Len(buffer[s]) : buffer[s][n] = First(s) + n - 1
    BY DEF PrefixOnDisk, Issued, First
  <2>1. PICK m \in 0..IdSpace :
          m = First(s) /\ \A i \in Ids : table[s][i] = session <=> i < m
    BY DEF IInv, RowsOwned
  <2>2. OwnRows(s) = {i \in Ids : i < m}
    BY <2>1 DEF OwnRows
  <2>3. {i \in Ids : i < m} = 0 .. m - 1
    BY StorageAssumption DEF Ids
  <2> QED BY <2>1, <2>2, <2>3 DEF IInv, BufferOrdered
<1> QED BY <1>1, StorageInvariant, PTL

(* A crash between two batches costs a stream fewer packets than           *)
(* BATCH_SIZE.                                                             *)
THEOREM StorageBoundedLoss == Spec => []BoundedLoss
<1>1. IInv => BoundedLoss
  <2> SUFFICES ASSUME IInv, phase # "down", NEW s \in Streams,
                      NEW i \in 0 .. NextId(s) - BATCH_SIZE
               PROVE i \in OwnRows(s)
    BY DEF BoundedLoss, Issued
  <2>1. /\ Len(buffer[s]) \in Nat /\ Len(buffer[s]) < BATCH_SIZE
        /\ NextId(s) \in Ids
    BY NextIdType DEF IInv, BufferOrdered, TypeOK
  <2>2. i \in Ids /\ i < First(s)
    BY <2>1, StorageAssumption DEF First, Ids
  <2> QED BY <2>2 DEF IInv, RowsOwned, OwnRows
<1> QED BY <1>1, StorageInvariant, PTL

(* A table read in id order goes from the latest session back to older     *)
(* ones: the ids that start at 0 in each process replace the rows of       *)
(* earlier sessions from the bottom up.                                    *)
THEOREM StorageLayered == Spec => []SessionsLayered
<1>1. IInv => SessionsLayered
  BY DEF IInv
<1> QED BY <1>1, StorageInvariant, PTL

(* The archive the destructor leaves holds every packet of the session.    *)
THEOREM StorageArchive == Spec => ArchiveComplete
<1> DEFINE Complete(k) ==
      archives'[k] # archives[k] =>
        /\ k = session
        /\ \A s \in Streams : \A i \in 0 .. Issued(s) - 1 : archives'[k][s][i] = k
<1>1. ASSUME IInv, MakeBackup, NEW k \in Sessions
      PROVE Complete(k)
  <2>1. archives' = [archives EXCEPT ![session] = table] /\ phase # "down"
    BY <1>1 DEF MakeBackup
  <2>2. archives \in [Sessions -> Tables \cup {NoArchive}]
    BY <1>1 DEF IInv, TypeOK
  <2>3. k # session => archives'[k] = archives[k]
    BY <2>1, <2>2
  <2>4. ASSUME NEW s \in Streams, NEW i \in 0 .. Issued(s) - 1
        PROVE table[s][i] = session
    <3>1. NextId(s) \in Ids
      BY <1>1, NextIdType DEF IInv
    <3>2. First(s) = NextId(s)
      BY <1>1, <3>1, NothingWaits DEF First, NoPackets, Ids
    <3>3. i \in Ids /\ i < First(s)
      BY <3>1, <3>2, StorageAssumption DEF Issued, Ids
    <3> QED BY <1>1, <2>1, <3>3 DEF IInv, RowsOwned
  <2>5. k = session => archives'[k] = table
    BY <2>1, <2>2
  <2> QED BY <2>3, <2>4, <2>5
<1>2. ASSUME IInv, [Next]_vars, NEW k \in Sessions
      PROVE Complete(k)
  <2>1. ASSUME UNCHANGED archives PROVE Complete(k)
    BY <2>1
  <2>2. MakeBackup \/ UNCHANGED archives
    BY <1>2 DEF Next, vars, WritePkt, Quit, FlushStep, Crash, OpenDatabase
  <2> QED BY <1>1, <1>2, <2>1, <2>2
<1>3. IInv /\ [Next]_vars => [\A k \in Sessions : Complete(k)]_vars
  BY <1>2
<1> QED BY <1>3, StorageInvariant, PTL DEF Spec, ArchiveComplete------------------------------------------------------------------------------

(* The refinement: what LogSaved and LogAll are in terms of the counters   *)
(* and buffers.                                                            *)

LEMMA SavedPrefixIs ==
  ASSUME NEW s \in Streams, NEW m \in 0..IdSpace,
         \A i \in Ids : table[s][i] = session <=> i < m
  PROVE  SavedPrefix(s) = m
<1>0. IdSpace \in Nat
  BY StorageAssumption
<1>1. OwnRows(s) = 0 .. m - 1
  <2>1. OwnRows(s) = {i \in Ids : i < m}
    BY DEF OwnRows
  <2>2. {i \in Ids : i < m} = 0 .. m - 1
    BY <1>0 DEF Ids
  <2> QED BY <2>1, <2>2
<1>2. ASSUME NEW n \in 0..IdSpace, OwnRows(s) = 0 .. n - 1
      PROVE n = m
  <2>1. 0 .. n - 1 = 0 .. m - 1
    BY <1>1, <1>2
  <2>2. ~(n < m)
    <3> SUFFICES ASSUME n < m PROVE FALSE
      OBVIOUS
    <3>1. n \in 0 .. m - 1 /\ n \notin 0 .. n - 1
      BY <1>0
    <3> QED BY <2>1, <3>1
  <2>3. ~(m < n)
    <3> SUFFICES ASSUME m < n PROVE FALSE
      OBVIOUS
    <3>1. m \in 0 .. n - 1 /\ m \notin 0 .. m - 1
      BY <1>0
    <3> QED BY <2>1, <3>1
  <2> QED BY <1>0, <2>2, <2>3
<1> HIDE DEF OwnRows
<1> QED BY <1>1, <1>2 DEF SavedPrefix

(* While the process lives, what is saved ends where the buffer begins.    *)
Mapped ==
  \A s \in Streams :
    /\ First(s) \in Nat /\ NextId(s) \in Nat
    /\ LogSaved[s] = First(s)
    /\ LogAll[s] = NextId(s)

LEMMA LiveMapping == IInv /\ LogOpen => Mapped
<1> SUFFICES ASSUME IInv, phase # "down", NEW s \in Streams
             PROVE /\ First(s) \in Nat /\ NextId(s) \in Nat
                   /\ LogSaved[s] = First(s)
                   /\ LogAll[s] = NextId(s)
  BY DEF Mapped, LogOpen
<1>1. PICK m \in 0..IdSpace :
        m = First(s) /\ \A i \in Ids : table[s][i] = session <=> i < m
  BY DEF IInv, RowsOwned
<1>2. SavedPrefix(s) = First(s)
  BY <1>1, SavedPrefixIs
<1>3. NextId(s) \in Nat /\ Len(buffer[s]) \in Nat
  BY NextIdType, StorageAssumption DEF IInv, TypeOK, Ids
<1>4. First(s) + Len(buffer[s]) = NextId(s)
  BY <1>3 DEF First
<1> QED BY <1>1, <1>2, <1>3, <1>4, StorageAssumption DEF LogSaved, LogAll

(* Between two processes only what was saved is left. *)
Settled == LogAll = LogSaved

LEMMA DownMapping == IInv /\ ~LogOpen => Settled
<1> SUFFICES ASSUME IInv, phase = "down", NEW s \in Streams
             PROVE SavedPrefix(s) + Len(buffer[s]) = SavedPrefix(s)
  BY DEF LogAll, LogSaved, LogOpen, Settled
<1>1. PICK m \in 0..IdSpace : \A i \in Ids : table[s][i] = session <=> i < m
  BY DEF IInv, RowsOwned
<1>2. SavedPrefix(s) = m /\ buffer[s] = <<>>
  BY <1>1, SavedPrefixIs DEF IInv, Flushed, NoPackets
<1> QED BY <1>2, StorageAssumption

LEMMA LiveMappingNext == IInv' /\ LogOpen' => Mapped'
BY LiveMapping, PTL

LEMMA DownMappingNext == IInv' /\ ~LogOpen' => Settled'
BY DownMapping, PTL

(* What is saved stays the same while the rows do. *)
LEMMA SameRows ==
  ASSUME UNCHANGED <<table, session>>
  PROVE  LogSaved' = LogSaved
BY DEF LogSaved, SavedPrefix, OwnRows

LEMMA WritePktIsAccept ==
  ASSUME IInv, IInv', NEW s \in Streams, WritePkt(s)
  PROVE  Log!Accept(s)
<1>1. phase = "running" /\ phase' = "running" /\ UNCHANGED session
  BY DEF WritePkt
<1>2. \A t \in Streams :
        /\ First(t) \in Nat /\ NextId(t) \in Nat
        /\ LogSaved[t] = First(t) /\ LogAll[t] = NextId(t)
  BY <1>1, LiveMapping DEF Mapped, LogOpen
<1>4. \A t \in Streams :
        /\ First(t)' \in Nat /\ NextId(t)' \in Nat
        /\ LogSaved'[t] = First(t)' /\ LogAll'[t] = NextId(t)'
  BY <1>1, LiveMappingNext DEF Mapped, LogOpen
<1>5. /\ NextId(s)' = NextId(s) + 1
      /\ \A t \in Streams : t # s => NextId(t)' = NextId(t)
  BY WritePktAdvances
<1>6. \A t \in Streams : t # s => buffer'[t] = buffer[t]
  BY DEF IInv, TypeOK, WritePkt, Flush
<1>7. First(s)' = First(s) \/ First(s)' = NextId(s)'
  <2>1. CASE buffer' = [buffer EXCEPT ![s] = <<>>]
    <3>1. Len(buffer'[s]) = 0
      BY <2>1 DEF IInv, TypeOK
    <3> QED BY <1>4, <3>1 DEF First
  <2>2. CASE buffer' = [buffer EXCEPT ![s] = Append(buffer[s], NextId(s))]
    <3>1. Len(buffer'[s]) = Len(buffer[s]) + 1 /\ Len(buffer[s]) \in Nat
      BY <1>2, <2>2 DEF IInv, TypeOK
    <3> QED BY <1>2, <1>5, <3>1 DEF First
  <2> QED BY <2>1, <2>2 DEF WritePkt, Flush
<1>8. \A t \in Streams : t # s => First(t)' = First(t)
  BY <1>5, <1>6 DEF First
<1>9. LogAll' = [LogAll EXCEPT ![s] = @ + 1]
  <2>1. /\ LogAll'[s] = LogAll[s] + 1
        /\ \A t \in Streams : t # s => LogAll'[t] = LogAll[t]
    BY <1>2, <1>4, <1>5
  <2> QED BY <2>1 DEF LogAll
<1>10. LogSaved' \in {LogSaved, [LogSaved EXCEPT ![s] = LogAll[s] + 1]}
  <2>1. CASE First(s)' = First(s)
    <3>1. \A t \in Streams : LogSaved'[t] = LogSaved[t]
      BY <1>2, <1>4, <1>8, <2>1
    <3> QED BY <3>1 DEF LogSaved
  <2>2. CASE First(s)' = NextId(s)'
    <3>1. /\ LogSaved'[s] = LogAll[s] + 1
          /\ \A t \in Streams : t # s => LogSaved'[t] = LogSaved[t]
      BY <1>2, <1>4, <1>5, <1>8, <2>2
    <3>2. LogSaved' = [LogSaved EXCEPT ![s] = LogAll[s] + 1]
      BY <3>1 DEF LogSaved
    <3> QED BY <3>2
  <2> QED BY <1>7, <2>1, <2>2
<1>11. LogAll'[s] < LogSaved'[s] + BATCH_SIZE
  <2>1. Len(buffer'[s]) < BATCH_SIZE /\ Len(buffer'[s]) \in Nat
    BY DEF IInv, BufferOrdered, TypeOK
  <2>2. First(s)' = NextId(s)' - Len(buffer'[s])
    BY DEF First
  <2> QED BY <1>4, <2>1, <2>2, StorageAssumption
<1>12. LogOpen /\ LogOpen'
  BY <1>1 DEF LogOpen
<1> QED BY <1>9, <1>10, <1>11, <1>12 DEF Log!Accept

LEMMA FlushStepIsSave ==
  ASSUME IInv, IInv', FlushStep
  PROVE  \E s \in Streams : Log!Save(s)
<1>1. phase = "closing" /\ phase' = "closing"
  BY DEF FlushStep
<1>2. PICK s \in Streams :
        /\ s = FlushOrder[step]
        /\ Flush(s, buffer[s])
        /\ \A t \in Streams : NextId(t)' = NextId(t)
  BY FlushStepFlushes
<1>3. \A t \in Streams :
        /\ First(t) \in Nat /\ NextId(t) \in Nat
        /\ LogSaved[t] = First(t) /\ LogAll[t] = NextId(t)
  BY <1>1, LiveMapping DEF Mapped, LogOpen
<1>5. \A t \in Streams :
        /\ First(t)' \in Nat
        /\ LogSaved'[t] = First(t)' /\ LogAll'[t] = NextId(t)'
  BY <1>1, LiveMappingNext DEF Mapped, LogOpen
<1>6. Len(buffer'[s]) = 0 /\ \A t \in Streams : t # s => buffer'[t] = buffer[t]
  BY <1>2 DEF IInv, TypeOK, Flush
<1>7. First(s)' = NextId(s) /\ \A t \in Streams : t # s => First(t)' = First(t)
  BY <1>2, <1>3, <1>6 DEF First
<1>8. LogSaved' = [LogSaved EXCEPT ![s] = LogAll[s]]
  BY <1>3, <1>5, <1>7 DEF LogSaved
<1>9. LogAll' = LogAll
  <2>1. \A t \in Streams : LogAll'[t] = LogAll[t]
    BY <1>2, <1>3, <1>5
  <2> QED BY <2>1 DEF LogAll
<1>10. LogOpen /\ LogOpen'
  BY <1>1 DEF LogOpen
<1> QED BY <1>8, <1>9, <1>10 DEF Log!Save
LEMMA MakeBackupIsClose ==
  ASSUME IInv, IInv', MakeBackup
  PROVE  Log!Close
<1>1. phase # "down" /\ phase' = "down" /\ UNCHANGED <<session, buffer, table>>
  BY DEF MakeBackup
<1>2. LogSaved = LogAll
  BY NothingWaits, <1>1, LiveMapping
     DEF Mapped, First, NoPackets, LogSaved, LogAll, LogOpen
<1>3. LogSaved' = LogSaved /\ LogAll' = LogSaved'
  BY <1>1, SameRows, DownMappingNext DEF LogOpen, Settled
<1> QED BY <1>1, <1>2, <1>3 DEF Log!Close, LogOpen

LEMMA CrashIsFail ==
  ASSUME IInv, IInv', Crash
  PROVE  Log!Fail
<1>1. phase # "down" /\ phase' = "down" /\ UNCHANGED <<session, table>>
  BY DEF Crash
<1>2. LogSaved' = LogSaved /\ LogAll' = LogSaved'
  BY <1>1, SameRows, DownMappingNext DEF LogOpen, Settled
<1> QED BY <1>1, <1>2 DEF Log!Fail, LogOpen

LEMMA OpenDatabaseIsReopen ==
  ASSUME IInv, IInv', OpenDatabase
  PROVE  Log!Reopen
<1>1. /\ phase = "down" /\ phase' # "down"
      /\ buffer' = NoPackets /\ pkt_id' = FreshIds
  BY DEF OpenDatabase
<1>2. \A s \in Streams : First(s)' = 0 /\ NextId(s)' = 0
  BY <1>1, FreshNextId DEF First, NextId, NoPackets
<1>3. \A s \in Streams : LogSaved'[s] = 0 /\ LogAll'[s] = 0
  BY <1>1, <1>2, LiveMappingNext DEF Mapped, LogOpen
<1> QED BY <1>1, <1>3 DEF Log!Reopen, Log!Empty, LogOpen, LogSaved, LogAll

LEMMA QuitIsStutter ==
  ASSUME Quit
  PROVE  UNCHANGED Log!vars
<1>1. phase # "down" /\ phase' # "down" /\ UNCHANGED <<session, buffer, table>>
  BY DEF Quit
<1>2. LogSaved' = LogSaved
  BY <1>1, SameRows
<1>3. LogAll' = LogAll
  BY <1>1 DEF LogAll, SavedPrefix, OwnRows
<1> QED BY <1>1, <1>2, <1>3 DEF Log!vars, LogOpen

(* SqliteDB implements PacketLog: whatever the order of writes, batches,   *)
(* quits and crashes, what a session leaves on disk is a prefix of what it *)
(* accepted, all of it after a clean end, and all but less than one batch  *)
(* after a crash.                                                          *)
THEOREM StorageImplementsLog == Spec => ImplementsPacketLog
<1>1. Init => Log!Init
  <2> SUFFICES ASSUME Init PROVE Log!Init
    OBVIOUS
  <2>1. IInv /\ phase # "down"
    BY InitIInv DEF Init
  <2>2. \A s \in Streams : First(s) = 0 /\ NextId(s) = 0
    BY FreshNextId DEF Init, First, NextId, NoPackets
  <2>3. \A s \in Streams : LogSaved[s] = 0 /\ LogAll[s] = 0
    BY <2>1, <2>2, LiveMapping DEF Mapped, LogOpen
  <2> QED BY <2>1, <2>3 DEF Log!Init, Log!Empty, LogOpen, LogSaved, LogAll
<1>2. IInv /\ IInv' /\ [Next]_vars => [Log!Next]_(Log!vars)
  <2> SUFFICES ASSUME IInv, IInv', [Next]_vars
               PROVE [Log!Next]_(Log!vars)
    OBVIOUS
  <2>1. ASSUME NEW s \in Streams, WritePkt(s) PROVE Log!Next
    BY <2>1, WritePktIsAccept DEF Log!Next
  <2>2. CASE Quit
    BY <2>2, QuitIsStutter
  <2>3. CASE FlushStep
    BY <2>3, FlushStepIsSave DEF Log!Next
  <2>4. CASE MakeBackup
    BY <2>4, MakeBackupIsClose DEF Log!Next
  <2>5. CASE Crash
    BY <2>5, CrashIsFail DEF Log!Next
  <2>6. CASE OpenDatabase
    BY <2>6, OpenDatabaseIsReopen DEF Log!Next
  <2>7. CASE UNCHANGED vars
    <3>1. UNCHANGED <<phase, session, buffer, table>>
      BY <2>7 DEF vars
    <3> QED BY <3>1 DEF Log!vars, LogOpen, LogSaved, LogAll, SavedPrefix, OwnRows
  <2> QED BY <2>1, <2>2, <2>3, <2>4, <2>5, <2>6, <2>7 DEF Next
<1> QED BY <1>1, <1>2, StorageInvariant, PTL DEF Spec, ImplementsPacketLog, Log!Spec
==============================================================================
