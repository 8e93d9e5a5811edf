SPECIFICATION Spec
CONSTANTS
  s1 = s1
  s2 = s2
  Sockets <- TwoSockets
  SocketOrder <- TwoSocketsOrder
  NoSocket = NoSocket
  Requests <- ListRequests
  MaxUnread = 2
  MaxTelemetry = 2
  MaxDisconnects = 1
CHECK_DEADLOCK FALSE
INVARIANTS
  NestingBounded
PROPERTIES
  TelemetryInOrder
  DanglingOnlyInOwnRead
