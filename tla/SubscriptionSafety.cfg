SPECIFICATION Spec
CONSTANTS
  Clients = {c1, c2}
  Sockets = {s1, s2, s3}
  Fields = {f1}
  NoSocket = NoSocket
  CommandFields = {f1}
  MaxCallbacks = 1
  MaxUnread = 1
  MaxEntries = 2
  MaxFaults = 2
  Fragmenting = TRUE
SYMMETRY Symmetry
INVARIANTS
  TypeOK
  NoDanglingSubscriber
  NoDoubleSubscriber
  ReconnectArmed
  OnlyNamedFields
