SPECIFICATION Spec
CONSTANTS
  Sources = {"antigravity", "opencode"}
  Window = 1
  MaxTotal = 2
  MaxWrites = 6
  MaxFailures = 2
  MaxTime = 4
INVARIANTS
  TypeOK
  CountedAsWritten
PROPERTIES
  LatestCounted
  EndShown
CHECK_DEADLOCK FALSE
