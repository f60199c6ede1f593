SPECIFICATION Spec
CONSTANTS
  sessions = sessions
  day = day
  rollout = rollout
  RolloutLines = 2
  RolloutKinds = {"meta", "header", "msg", "long"}
  Root = sessions
  Dirs = {sessions, day}
  Files = {rollout}
  In <- MCIn
  Removable = {rollout}
  MaxAge = 1
  MaxTime = 3
  Sources = {"codex"}
  Kinds <- MCKinds
  MaxLines <- MCMaxLines
PROPERTIES
  LaterBatchesAreNamed
CHECK_DEADLOCK FALSE
