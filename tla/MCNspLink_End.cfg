CONSTANTS
  c = c
  s1 = s1
  s2 = s2
  Caller = {c}
  Callee = {s1}
  None = None
  Retrans = 0
  DiCount = 1
  Backlog = 0
  Immediate = FALSE
  Use = {"unlisten", "read"}
  MaxLink = 1
  MaxLoss = 1
  MaxDup = 0
  MaxCrash = 1
SPECIFICATION FairSpec
PROPERTIES ConnectSettles DestroyTimerFrees
CHECK_DEADLOCK FALSE
