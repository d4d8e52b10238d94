CONSTANTS
  a = a
  b = b
  Node = {a, b}
  Caller = a
  SeqHalf = 3
  MaxSend <- StaleSends
  MaxLoss = 1
  TimerRoom = 2
  MaxWindow = 2
  DlySeq = 1
  RcvBuf = 20
SPECIFICATION Spec
INVARIANT AckOnlySent
CHECK_DEADLOCK FALSE
