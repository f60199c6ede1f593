SPECIFICATION Spec
CONSTANTS
  s1 = s1
  s2 = s2
  g1 = g1
  NoSlug = NoSlug
  Pollers = {p1, p2}
  Runners = {p1}
  NumSources = 1
  Sessions = {s1}
  Handles <- OneSession
  Slugs = {g1}
  SlugOf <- SecondIsSubagent
  Kinds = {"msg", "end"}
  MaxLog <- TwoAndOne
  FaultKinds = {"cancel"}
  MaxFaults = 1
  StaleThreshold = 1
  Retention = 1
  HealthThreshold = 1
  SeqWidth = 1
  SlowPolls = FALSE
  EndedAges = {0, 1}
INVARIANTS
  StoreConsistent
PROPERTIES
  StoreFollowsLifecycle
