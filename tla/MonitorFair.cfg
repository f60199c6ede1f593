SPECIFICATION FairSpec
CONSTANTS
  s1 = s1
  s2 = s2
  g1 = g1
  NoSlug = NoSlug
  Pollers = {p1}
  Runners = {p1}
  NumSources = 2
  Sessions = {s1, s2}
  Handles <- TwoSources
  Slugs = {g1}
  SlugOf <- SecondIsSubagent
  Kinds = {"msg", g1}
  MaxLog <- ShortLogs
  FaultKinds = {"discover", "parse"}
  MaxFaults = 2
  StaleThreshold = 1
  Retention = 1
  HealthThreshold = 1
  SeqWidth = 1
  SlowPolls = FALSE
  EndedAges = {0}
INVARIANTS
  HealthMirrored
  NoOrphanedSubagent
PROPERTIES
  EverythingIsConsumed
  SilentSessionLeaves
  HealthRecovers
