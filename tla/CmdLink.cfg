SPECIFICATION Spec
CONSTANTS
  UdpClients = {u}
  TcpClients = {t}
  None = None
  Words = 2
  Calls <- MCCalls
  MaxReply <- MCMaxReply
  MaxCalls = 3
  MaxFaults = 1
  MaxLinks <- MCMaxLinks
INVARIANTS
  AnswersInStep
  ReadsAreAtomic
  AckedWriteHappened
CHECK_DEADLOCK FALSE
