------------------------------ MODULE MCMonitor ------------------------------
(* Instances of Monitor for TLC. *)
EXTENDS Monitor

CONSTANTS s1, s2, g1   \* two session IDs, a sub-agent slug

\* One source that reports both sessions.
OneSource == {<<1, s1>>, <<1, s2>>}

\* Two sources with a session each; one source with one session.
TwoSources == {<<1, s1>>, <<2, s2>>}
OneSession == {<<1, s1>>}

\* The first handle writes three records, the others one.
OneLongLog == [h \in Handles |-> IF h[2] = s1 THEN 3 ELSE 1]

TwoAndOne  == [h \in Handles |-> IF h[2] = s1 THEN 2 ELSE 1]
ShortLogs  == [h \in Handles |-> 1]

\* The second session is the sub-agent with slug g1; or nobody has a slug.
SecondIsSubagent == [s \in Sessions |-> IF s = s2 THEN g1 ELSE NoSlug]
=============================================================================
