SPECIFICATION FlightSpec
CONSTANTS
  BATCH_SIZE = 2
  IdSpace = 4
  MaxPackets = 3
  MaxSessions = 2
CHECK_DEADLOCK FALSE
INVARIANTS
  FlightTypeOK
  PrefixOnDisk
  BoundedLoss
  SessionsLayered
  KnownIsRecorded
PROPERTIES
  ArchiveComplete
  ImplementsPacketLog
