SPECIFICATION BridgeSpec
CONSTANTS
  MaxMessages = 5
CHECK_DEADLOCK FALSE
INVARIANTS
  BridgeTypeOK
  InOrder
  WholeHandled
  StoredExactly
  BufferBounded
  LocationSkew
