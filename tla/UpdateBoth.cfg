SPECIFICATION Spec
CONSTANTS
  UdpClients = {u1}
  TcpClients = {t1}
  None = none
  Chunks = 2
  Area <- Areas
  Joins = TRUE
  FlashMayFail = TRUE
  MaxFaults = 1
INVARIANTS OnlyWholeFiles InAreaAsked
CHECK_DEADLOCK FALSE
