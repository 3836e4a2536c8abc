CONSTANTS
  Pid = {p1, p2}
  Peer = {a1}
  Container = {k1}
  Port = {grpc, other}
  ServerPort = grpc
  Host = Host
  None = None
SPECIFICATION FairSpec
INVARIANTS
  
  FilledInContainer
PROPERTIES
  PeersMatched
