SPECIFICATION Spec
CONSTANTS
  PageSize = 4
  Block = 8
  DeviceSize = 16
  Starts <- AnyPage
  Counts = {1, 2, 5, 6}
  MaxCalls = 2
INVARIANTS WritesPrefix SuccessMeansWritten ReadIsFromAddress
CHECK_DEADLOCK FALSE
