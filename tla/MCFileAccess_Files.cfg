SPECIFICATION Spec
CONSTANTS
  f1 = f1
  f2 = f2
  NoName = none
  Pattern = pattern
  Dir = dir
  l1 = l1
  l2 = l2
  Link = {l1, l2}
  MainLink = l1
  DelLink = l2
  BlockSize = 3
  Room = 2
  Faults = {"create", "write", "kill", "link", "open", "vanish"}
  MaxFaults = 3
  Starts <- AllStarts
  Source <- TwoFiles
INVARIANTS CopiedWhole NothingMissed OnlyFetchedRemoved CallsApart
PROPERTY CommandEnds
CHECK_DEADLOCK FALSE
