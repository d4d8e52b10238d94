CONSTANTS
  c = c
  s1 = s1
  s2 = s2
  Caller = {c}
  Callee = {s1, s2}
  None = None
  Retrans = 0
  DiCount = 1
  Backlog = 0
  Immediate = FALSE
  Use = {}
  MaxLink = 1
  MaxLoss = 1
  MaxDup = 1
  MaxCrash = 0
SPECIFICATION Spec
INVARIANTS TypeOK OneLinkPerConnect
CHECK_DEADLOCK FALSE
