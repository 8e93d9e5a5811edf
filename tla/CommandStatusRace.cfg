SPECIFICATION Spec
CONSTANTS
  s1 = s1
  s2 = s2
  Sockets <- TwoSockets
  SocketOrder <- TwoSocketsOrder
  NoSocket = NoSocket
  Requests <- PortRequests
  MaxUnread = 1
  MaxTelemetry = 1
  MaxDisconnects = 0
CHECK_DEADLOCK FALSE
INVARIANTS
  StatusAgrees
