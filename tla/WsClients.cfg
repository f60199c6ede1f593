SPECIFICATION Spec
CONSTANTS
  Conns = {c1, c2}
  FaultyPeers = {c1}
  MaxConns = 1
  SendBuffer = 1
  Heartbeat = TRUE
  MaxVersion = 1
  MaxEvents = 1
INVARIANTS
  TypeOK
  RegistryConsistent
  NoSilentGap
  CurrentAfterSnapshot
CHECK_DEADLOCK FALSE
