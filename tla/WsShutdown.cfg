SPECIFICATION FairSpec
CONSTANTS
  Conns = {c1}
  FaultyPeers = {c1}
  MaxConns = 1
  SendBuffer = 1
  Heartbeat = TRUE
  MaxVersion = 2
  MaxEvents = 1
PROPERTIES
  ClosedHandlersReturn
  SilentPeerIsDropped
CHECK_DEADLOCK FALSE
