CONSTANTS
  c = c
  s1 = s1
  s2 = s2
  Caller = {c}
  Callee = {s1}
  None = None
  Retrans = 1
  DiCount = 1
  Backlog = 0
  Immediate = FALSE
  Use = {"wait", "again", "reject", "shutdown"}
  MaxLink = 1
  MaxLoss = 0
  MaxDup = 0
  MaxCrash = 0
SPECIFICATION Spec
PROPERTY EndIsFinal
CHECK_DEADLOCK FALSE
