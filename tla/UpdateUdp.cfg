SPECIFICATION Spec
CONSTANTS
  UdpClients = {u1}
  TcpClients = {}
  None = none
  Chunks = 3
  Area <- Areas
  Joins = FALSE
  FlashMayFail = TRUE
  MaxFaults = 2
INVARIANT SuccessIsMine
PROPERTY EndsUnlessControlLost
CHECK_DEADLOCK FALSE
