SPECIFICATION Spec
CONSTANTS
  s1 = s1
  s2 = s2
  Sockets <- OneSocket
  SocketOrder <- OneSocketOrder
  NoSocket = NoSocket
  Requests <- AllRequests
  MaxUnread = 1
  MaxTelemetry = 1
  MaxDisconnects = 1
CHECK_DEADLOCK FALSE
INVARIANTS
  DisconnectedRemoved
