SPECIFICATION RxSpec
CONSTANTS
  RxBufSize = 3
  MaxBytes = 8
INVARIANT RingHoldsWaiting
PROPERTIES ImplementsFifo BytesDelivered
CHECK_DEADLOCK FALSE
