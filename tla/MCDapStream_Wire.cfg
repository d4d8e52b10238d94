SPECIFICATION Spec
CONSTANTS
  Messages <- AllMessages
  MaxMsgs = 4
  MaxToggles = 1
  BlockSize = 100
  SegSize = 70
  MaxRead = 65535
INVARIANTS Decoded WholeMessages MeaningKept
CHECK_DEADLOCK FALSE
