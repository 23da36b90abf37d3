SPECIFICATION Spec
CONSTANTS
  Frames <- BusFrames
  g_ID = 1
  S_RX_BUF_SIZE = 8
  MaxLost = 1
INVARIANTS AnswersAreOwn GoodWriteAccepted FrameSync
PROPERTIES WriteWasRequested AnsweredUnlessDisturbed
CHECK_DEADLOCK FALSE
