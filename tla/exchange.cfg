SPECIFICATION Spec
CONSTANTS
  RequestTypes = {"NEW", "CANCEL", "INVALID"}
  MaxRequests = 3
  MaxBacklog = 2
INVARIANTS NoUseAfterFree SocketsReady
CHECK_DEADLOCK FALSE
