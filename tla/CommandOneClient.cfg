SPECIFICATION FairSpec
CONSTANTS
  s1 = s1
  s2 = s2
  Sockets <- OneSocket
  SocketOrder <- OneSocketOrder
  NoSocket = NoSocket
  Requests <- AllRequests
  MaxUnread = 1
  MaxTelemetry = 2
  MaxDisconnects = 1
CHECK_DEADLOCK FALSE
INVARIANTS
  TypeOK
  StatusAgrees
PROPERTIES
  AbortRepeats
  
