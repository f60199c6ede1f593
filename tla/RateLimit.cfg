SPECIFICATION Spec
CONSTANTS
  Clients = {c1, c2}
  Limit = 3
  Window = 2
  Burst = 2
  Handlers = {h1, h2}
  MaxWait = 1
  MaxTime = 9
INVARIANTS
  TypeOK
PROPERTIES
  LimitsLikeBuckets
  RetryAfterSuffices
  SilentClientsAreForgotten
SYMMETRY Symmetry
CHECK_DEADLOCK FALSE
