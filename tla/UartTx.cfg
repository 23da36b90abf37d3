SPECIFICATION Spec
CONSTANTS
  TxBufSize = 3
  Lens = {1, 2, 3, 4}
  MaxMsgs = 3
INVARIANTS AlignedWhenQuiet DrivenWhileQueued DrivenToTheEnd DamageIsBounded
PROPERTIES SendReturns BusReleased
CHECK_DEADLOCK FALSE
