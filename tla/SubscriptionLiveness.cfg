SPECIFICATION FairSpec
CONSTANTS
  Clients = {c1}
  Sockets = {s1, s2}
  Fields = {f1}
  NoSocket = NoSocket
  CommandFields = {f1}
  MaxCallbacks = 2
  MaxUnread = 2
  MaxEntries = 2
  MaxFaults = 2
  Fragmenting = FALSE
INVARIANT
  InterestPreserved
PROPERTY
  InterestServed
