CONSTANTS
  r1 = r1
  r2 = r2
  near = near
  far = far
  s1 = s1
  s2 = s2
  None = None
  Router = {r1, r2}
  Listen <- Times
  OwnListen = 2
  Near = {near}
  Far = {}
  Sock = {s1}
  d1 = d1
  d2 = d2
  us = us
  alias = alias
  leaf = leaf
  b = b
  own = own
  area = area
  hand = hand
  Nil = Nil
  Dev = {d1, d2}
  Address = {us, alias}
  Node = {r1, r2, leaf, b}
  Area = {own, area, hand}
  AreaOf <- Areas
  Own = own
  Level <- Levels
  Priority <- Priorities
  Cost <- Costs
  Manual = {hand}
  Lans <- AllLans
SPECIFICATION RoutingSpec
INVARIANTS RouterHeard IntraEthernet AddressLocal DirectRoute BestChosen
PROPERTY FailedRouterDropped
CHECK_DEADLOCK FALSE
