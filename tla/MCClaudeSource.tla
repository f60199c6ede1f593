---------------------------- MODULE MCClaudeSource ----------------------------
(* Instances of ClaudeSource for TLC. *)
EXTENDS ClaudeSource

CONSTANTS f1, f2, other   \* two transcripts, an ID that is no file's

\* The records of the second transcript carry another ID than its name.
SecondHasOtherID == [f \in Files |-> IF f = f2 THEN other ELSE f]

\* The first transcript has a sub-agent, the second may become unreadable.
SubagentAndLong ==
  [f \in Files |-> IF f = f1 THEN {"progress", "result"} ELSE {"msg", "long"}]

\* The path matters for the second transcript.
PathLeftOut ==
  [f \in Files |-> IF f = f1 THEN {"full", "invalid"} ELSE {"full", "pathless"}]

\* The first transcript is longer than the second.
TwoAndOne == [f \in Files |-> IF f = f1 THEN 2 ELSE 1]
=============================================================================
