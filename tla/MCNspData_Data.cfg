CONSTANTS
  a = a
  b = b
  Node = {a, b}
  Caller = a
  SeqHalf = 4
  MaxSeg <- DataLimit
  MaxWindow = 2
  DlySeq = 2
  RcvBuf = 1
SPECIFICATION Spec
INVARIANTS InOrder NoSegmentLost OtherData SwitchAgreement
PROPERTY OrderedLink
CHECK_DEADLOCK FALSE
