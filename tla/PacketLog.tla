------------------------------ MODULE PacketLog ------------------------------
(***************************************************************************)
(* What the data storage promises about the packets of one session of the  *)
(* server: each stream is a log of which a prefix is safe on disk.  A      *)
(* clean end of the session loses nothing, a failure loses fewer packets   *)
(* of a stream than one batch.  SqliteDB (module DataStorage) implements   *)
(* it.                                                                     *)
(***************************************************************************)
EXTENDS Naturals

CONSTANTS
  Stream,     \* the packet streams
  Batch       \* a failure loses fewer packets of a stream than this

VARIABLES
  open,       \* a session runs
  log,        \* log[s]: packets of the session that were accepted and kept
  saved       \* saved[s]: how many of them, from the first, are safe

vars == <<open, log, saved>>

Empty == [s \in Stream |-> 0]

Init ==
  /\ open = TRUE
  /\ log = Empty
  /\ saved = Empty

Accept(s) ==
  /\ open
  /\ log' = [log EXCEPT ![s] = @ + 1]
  /\ saved' \in {saved, [saved EXCEPT ![s] = log[s] + 1]}
  /\ log'[s] < saved'[s] + Batch
  /\ UNCHANGED open

Save(s) ==
  /\ open
  /\ saved' = [saved EXCEPT ![s] = log[s]]
  /\ UNCHANGED <<open, log>>

Close ==
  /\ open
  /\ saved = log
  /\ open' = FALSE
  /\ UNCHANGED <<log, saved>>

Fail ==
  /\ open
  /\ open' = FALSE
  /\ log' = saved
  /\ UNCHANGED saved

Reopen ==
  /\ ~open
  /\ open' = TRUE
  /\ log' = Empty
  /\ saved' = Empty

Next ==
  \/ \E s \in Stream : Accept(s) \/ Save(s)
  \/ Close
  \/ Fail
  \/ Reopen

Spec == Init /\ [][Next]_vars
==============================================================================
