SPECIFICATION FairSpec
CONSTANTS
  f1 = f1
  f2 = f2
  other = other
  Files = {f1, f2}
  IDs = {f1, f2, other}
  RecordID <- SecondHasOtherID
  Kinds <- SubagentAndLong
  Endings <- PathLeftOut
  MaxLines <- TwoAndOne
  MaxMarkers = 2
  Ageing = {f2}
INVARIANTS
  TypeOK
  ReportedOnce
  CompletionShown
  EndAnnounced
PROPERTIES
  EndReported
  MessagesReported
