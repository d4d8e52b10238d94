CONSTANTS
  a = a
  b = b
  Node = {a, b}
  Caller = a
  SeqHalf = 9
  MaxSend <- ResumeSends
  MaxLoss = 1
  TimerRoom = 1
  MaxWindow = 1
  DlySeq = 1
  RcvBuf = 1
SPECIFICATION Spec
PROPERTIES SendersResume QueuesDrain
CHECK_DEADLOCK FALSE
