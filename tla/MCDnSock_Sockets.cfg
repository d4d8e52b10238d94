CONSTANTS
  s1 = s1
  s2 = s2
  s3 = s3
  o1 = o1
  Sk = {s1, s2, s3}
  Ports = 3
  HashSize = 2
  Object = {o1}
  ListenHash <- Hashes
  Account = o1
  Peer = {1}
  Remote = {0, 1}
  Backlog = 0
SYMMETRY Symmetric
SPECIFICATION Spec
INVARIANTS PortsApart LinkFound NoListenerLost
