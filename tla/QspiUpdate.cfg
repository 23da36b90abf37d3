SPECIFICATION Spec
CONSTANTS
  PAGE_SIZE = 2
  SectSize = 4
  FlashDeviceSize = 16
  AddrByte = 4
  UpdateBase <- BaseOf
  Sizes = {0, 3, 4, 8, 9}
  MaxUpdates = 3
  MaxFaults = 1
  MaxCuts = 1
INVARIANTS InstalledIntact SuccessMessageIsTrue FailsOnlyOnFault ModeRestored
CHECK_DEADLOCK FALSE
