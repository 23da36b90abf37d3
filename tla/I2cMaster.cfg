CONSTANTS
  Buses <- MCBuses
  Bits = 2
  Own = 1
  AddrSize <- MCAddrSize
  Contents <- MCContents
  Calls <- MCCalls
  MaxCalls = 2
SPECIFICATION Spec
INVARIANTS BusReleased FightsOnlyWhileLow OtherBusesQuiet
PROPERTIES PromiseKept EveryCallReturns
CHECK_DEADLOCK FALSE
