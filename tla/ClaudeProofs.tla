----------------------------- MODULE ClaudeProofs -----------------------------
(***************************************************************************)
(* Theorems about ClaudeSource, for every set of transcripts, every bound  *)
(* on their lines and on the markers, and whatever IDs the records carry   *)
(* unless a theorem says otherwise.                                        *)
(*                                                                         *)
(* Agents and the hook may act between any two steps of Parse.  What makes *)
(* the properties hold is that a batch stays the part of the transcript    *)
(* that follows the cursor until it is reported or dropped (BatchInv).      *)
(***************************************************************************)
EXTENDS ClaudeSource, SequenceCounts

-----------------------------------------------------------------------------
(* The types, and what the batch is *)

AgentInv ==
  /\ lines \in [Files -> Seq(LineKinds)]
  /\ tail \in [Files -> LineKinds \cup {NoLine}]
  /\ old \in [Files -> BOOLEAN]

DiskInv ==
  /\ markers \subseteq Marker /\ written \in 0 .. MaxMarkers
  /\ pending \subseteq IDs /\ recent \in BOOLEAN
  /\ due \in [Files -> BOOLEAN]

SubTypes == [act : {"none", "working", "terminal"}, slug : BOOLEAN]

MonInv ==
  /\ cursor \in [Files -> [offset : Nat, parents : BOOLEAN]]
  /\ \A f \in Files : cursor[f].offset <= Len(lines[f])
  /\ subs \in [Files -> SubTypes]
  /\ counted \in [Files -> Nat]

PollInv ==
  /\ pc \in {"idle", "handles", "drain", "update"}
  /\ todo \subseteq Files /\ h \in Files \cup {NoFile} /\ batch \in Seq(LineKinds)

\* Where the batch ends that is read from transcript f.
BatchEnd(f) == cursor[f].offset + Len(batch)

\* The batch is what follows the cursor, up to a line that is there.
BatchInv ==
  pc \in {"drain", "update"} =>
    /\ h \in Files /\ BatchEnd(h) <= Len(lines[h])
    /\ batch = SubSeq(lines[h], cursor[h].offset + 1, BatchEnd(h))

TypeInv == AgentInv /\ DiskInv /\ MonInv /\ PollInv /\ BatchInv

LEMMA TypeInvTypes == TypeInv => TypeOK
<1> SUFFICES ASSUME TypeInv PROVE TypeOK OBVIOUS
<1> USE DEF TypeInv
<1>1. ASSUME NEW f \in Files
      PROVE  cursor[f].offset \in 0 .. Len(lines[f]) /\ cursor[f].parents \in BOOLEAN
  <2>1. Len(lines[f]) \in Nat BY LenProperties DEF AgentInv
  <2>2. cursor[f] \in [offset : Nat, parents : BOOLEAN] /\ cursor[f].offset <= Len(lines[f])
    BY DEF MonInv
  <2> QED BY <2>1, <2>2
<1> QED BY <1>1 DEF TypeOK, AgentInv, DiskInv, MonInv, PollInv, SubTypes

LEMMA TypeInvInit == Init => TypeInv
<1> SUFFICES ASSUME Init PROVE TypeInv OBVIOUS
<1> USE SourceAssumption DEF Init
<1>1. AgentInv BY EmptySeq DEF AgentInv
<1>2. DiskInv
  <2>1. due \in [Files -> BOOLEAN] OBVIOUS
  <2>2. written \in 0 .. MaxMarkers OBVIOUS
  <2> QED BY <2>1, <2>2 DEF DiskInv
<1>3. MonInv
  <2>1. \A f \in Files : cursor[f] = [offset |-> 0, parents |-> FALSE] /\ lines[f] = << >> OBVIOUS
  <2>2. Len(<< >>) = 0 OBVIOUS
  <2> QED BY <2>1, <2>2 DEF MonInv, SubTypes, NoSub
<1>4. PollInv BY EmptySeq DEF PollInv
<1>5. BatchInv BY DEF BatchInv
<1> QED BY <1>1, <1>2, <1>3, <1>4, <1>5 DEF TypeInv

-----------------------------------------------------------------------------
(* Transcripts only grow *)

\* What the step leaves of a transcript: all of it.
Grows(f) ==
  /\ lines'[f] \in Seq(LineKinds) /\ Len(lines[f]) <= Len(lines'[f])
  /\ \A i \in 1 .. Len(lines[f]) : lines'[f][i] = lines[f][i]
  /\ \A k \in 0 .. Len(lines[f]) : \A n \in k .. Len(lines[f]) :
       SubSeq(lines'[f], k + 1, n) = SubSeq(lines[f], k + 1, n)

LEMMA LinesStay ==
  ASSUME AgentInv, UNCHANGED lines PROVE \A f \in Files : Grows(f)
<1> SUFFICES ASSUME NEW f \in Files PROVE Grows(f) OBVIOUS
<1>1. lines'[f] = lines[f] /\ lines[f] \in Seq(LineKinds) BY DEF AgentInv
<1>2. Len(lines[f]) \in Nat BY <1>1, LenProperties
<1> QED BY <1>1, <1>2 DEF Grows

LEMMA LinesGrow ==
  ASSUME AgentInv, NEW g \in Files, EndLine(g) PROVE \A f \in Files : Grows(f)
<1> SUFFICES ASSUME NEW f \in Files PROVE Grows(f) OBVIOUS
<1>1. lines' = [lines EXCEPT ![g] = Append(@, tail[g])] /\ tail[g] # NoLine BY DEF EndLine
<1>2. lines \in [Files -> Seq(LineKinds)] /\ tail[g] \in LineKinds
  BY <1>1 DEF AgentInv
<1>3. Len(lines[f]) \in Nat /\ lines[f] \in Seq(LineKinds) BY <1>2, LenProperties
<1>4. CASE f = g
  <2>1. lines'[f] = Append(lines[f], tail[g]) BY <1>1, <1>2, <1>4
  <2> DEFINE s == lines[f]
             e == tail[g]
  <2>2. s \in Seq(LineKinds) /\ e \in LineKinds BY <1>2
  <2> HIDE DEF s, e
  <2>3. /\ Append(s, e) \in Seq(LineKinds) /\ Len(Append(s, e)) = Len(s) + 1
        /\ \A i \in 1 .. Len(s) : Append(s, e)[i] = s[i]
    BY <2>2, AppendProperties
  <2>4. \A k \in 0 .. Len(s) : \A n \in k .. Len(s) :
          SubSeq(Append(s, e), k + 1, n) = SubSeq(s, k + 1, n)
    BY <2>2, PartOfAppend
  <2>5. Len(s) <= Len(Append(s, e)) BY <1>3, <2>3 DEF s
  <2> QED BY <2>1, <2>3, <2>4, <2>5 DEF s, e, Grows
<1>5. CASE f # g
  <2>1. lines'[f] = lines[f] BY <1>1, <1>2, <1>5
  <2> QED BY <1>3, <2>1 DEF Grows
<1> QED BY <1>4, <1>5

\* Only the one line that an agent ends changes a transcript.
LEMMA LinesOfStep ==
  ASSUME AgentInv, Next PROVE \A f \in Files : Grows(f)
<1>1. UNCHANGED lines \/ \E g \in Files : EndLine(g)
  BY DEF Next, Poller, Parse, Environment, Discover, PollEnds, Tick, ReadLines, ReadFails,
         drainEndMarkers, ReportData, ReportEnd, ReportNothing, Report, StartLine,
         WriteMarker, LeaveWindow, agentVars
<1> QED BY <1>1, LinesStay, LinesGrow

\* A step that leaves cursor and batch alone leaves the batch what it is.
LEMMA BatchStays ==
  ASSUME TypeInv, \A f \in Files : Grows(f), UNCHANGED <<cursor, h, batch>>,
         pc' \in {"drain", "update"} => pc \in {"drain", "update"}
  PROVE  BatchInv'
<1> SUFFICES ASSUME pc' \in {"drain", "update"}
             PROVE  /\ h \in Files /\ BatchEnd(h) <= Len(lines'[h])
                    /\ batch = SubSeq(lines'[h], cursor[h].offset + 1, BatchEnd(h))
  BY DEF BatchInv, BatchEnd
<1>1. /\ h \in Files /\ BatchEnd(h) <= Len(lines[h])
      /\ batch = SubSeq(lines[h], cursor[h].offset + 1, BatchEnd(h))
  BY DEF TypeInv, BatchInv
<1>2. Len(lines[h]) \in Nat /\ Len(lines'[h]) \in Nat /\ Len(batch) \in Nat
  BY <1>1, LenProperties DEF TypeInv, AgentInv, PollInv, Grows
<1>3. cursor[h].offset \in Nat BY <1>1 DEF TypeInv, MonInv
<1>4. cursor[h].offset \in 0 .. Len(lines[h]) /\ BatchEnd(h) \in cursor[h].offset .. Len(lines[h])
  BY <1>1, <1>2, <1>3 DEF BatchEnd
<1>5. SubSeq(lines'[h], cursor[h].offset + 1, BatchEnd(h))
        = SubSeq(lines[h], cursor[h].offset + 1, BatchEnd(h))
  BY <1>1, <1>4 DEF Grows
<1>6. BatchEnd(h) <= Len(lines'[h]) BY <1>1, <1>2, <1>4 DEF Grows
<1> QED BY <1>1, <1>5, <1>6

\* Nor does it take the cursor past the end.
LEMMA CursorStays ==
  ASSUME TypeInv, \A f \in Files : Grows(f), UNCHANGED monVars PROVE MonInv'
<1>1. UNCHANGED <<cursor, subs, counted>> BY DEF monVars
<1>2. ASSUME NEW f \in Files PROVE cursor[f].offset <= Len(lines'[f])
  <2>1. Len(lines[f]) \in Nat /\ Len(lines'[f]) \in Nat
    BY LenProperties DEF TypeInv, AgentInv, Grows
  <2>2. cursor[f].offset \in Nat /\ cursor[f].offset <= Len(lines[f]) BY DEF TypeInv, MonInv
  <2> QED BY <2>1, <2>2 DEF Grows
<1> QED BY <1>1, <1>2 DEF TypeInv, MonInv

-----------------------------------------------------------------------------
(* Each action keeps the types *)

LEMMA TypeInvAgents ==
  ASSUME TypeInv, NEW f \in Files,
         \/ \E k \in Kinds[f] : StartLine(f, k)
         \/ EndLine(f) \/ LeaveWindow(f)
  PROVE  AgentInv' /\ DiskInv' /\ PollInv'
<1>1. CASE \E k \in Kinds[f] : StartLine(f, k)
  <2> PICK k \in Kinds[f] : StartLine(f, k) BY <1>1
  <2>1. k \in LineKinds BY SourceAssumption
  <2> QED BY <2>1 DEF StartLine, TypeInv, AgentInv, DiskInv, PollInv, diskVars
<1>2. CASE EndLine(f)
  <2>1. lines' = [lines EXCEPT ![f] = Append(@, tail[f])] /\ tail[f] # NoLine
    BY <1>2 DEF EndLine
  <2>2. lines \in [Files -> Seq(LineKinds)] /\ tail[f] \in LineKinds
    BY <2>1 DEF TypeInv, AgentInv
  <2>3. Append(lines[f], tail[f]) \in Seq(LineKinds) BY <2>2, AppendProperties
  <2>4. lines' \in [Files -> Seq(LineKinds)] BY <2>1, <2>2, <2>3
  <2> QED BY <1>2, <2>4 DEF EndLine, TypeInv, AgentInv, DiskInv, PollInv, diskVars
<1>3. CASE LeaveWindow(f)
  BY <1>3 DEF LeaveWindow, TypeInv, AgentInv, DiskInv, PollInv, diskVars
<1> QED BY <1>1, <1>2, <1>3

LEMMA TypeInvMarkers ==
  ASSUME TypeInv, (\E m \in Marker : WriteMarker(m)) \/ Tick \/ drainEndMarkers
  PROVE  AgentInv' /\ DiskInv' /\ PollInv'
<1>1. CASE \E m \in Marker : WriteMarker(m)
  <2> PICK m \in Marker : WriteMarker(m) BY <1>1
  <2>1. m.of \in Files /\ NamesFile(m) \in BOOLEAN BY DEF Marker, NamesFile
  <2>2. /\ written < MaxMarkers /\ written' = written + 1
        /\ markers' = markers \cup {m}
        /\ due' = [due EXCEPT ![m.of] = @ \/ NamesFile(m)]
        /\ UNCHANGED <<agentVars, pending, recent, pc, todo, h, batch>>
    BY DEF WriteMarker
  <2>3. written' \in 0 .. MaxMarkers BY <2>2, SourceAssumption DEF TypeInv, DiskInv
  <2>4. due' \in [Files -> BOOLEAN] BY <2>1, <2>2 DEF TypeInv, DiskInv
  <2>5. markers' \subseteq Marker BY <2>2 DEF TypeInv, DiskInv
  <2>6. DiskInv' BY <2>2, <2>3, <2>4, <2>5 DEF TypeInv, DiskInv
  <2> QED BY <2>2, <2>6 DEF TypeInv, AgentInv, PollInv, agentVars
<1>2. CASE Tick BY <1>2 DEF Tick, TypeInv, AgentInv, DiskInv, PollInv, agentVars, diskVars
<1>3. CASE drainEndMarkers
  <2>1. Accepted \subseteq IDs BY SourceAssumption DEF Accepted, TypeInv, DiskInv, Marker
  <2>2. /\ (UNCHANGED <<markers, pending, recent>>
             \/ (markers' = {} /\ pending' = pending \cup Accepted /\ recent' = TRUE))
        /\ pc' = "update" /\ UNCHANGED <<agentVars, written, todo, h, batch, due>>
    BY <1>3 DEF drainEndMarkers
  <2>3. DiskInv' BY <2>1, <2>2 DEF TypeInv, DiskInv
  <2> QED BY <2>2, <2>3 DEF TypeInv, AgentInv, PollInv, agentVars
<1> QED BY <1>1, <1>2, <1>3

LEMMA TypeInvPoll ==
  ASSUME TypeInv, Discover \/ PollEnds \/ ReportNothing \/ \E f \in Files : ReadFails(f)
  PROVE  AgentInv' /\ DiskInv' /\ PollInv' /\ BatchInv' /\ UNCHANGED monVars
<1>1. UNCHANGED <<agentVars, diskVars, pending, recent, monVars, due>>
  BY DEF Discover, PollEnds, ReportNothing, ReadFails
<1>2. AgentInv' /\ DiskInv' BY <1>1 DEF TypeInv, AgentInv, DiskInv, agentVars, diskVars
<1>3. PollInv' /\ pc' \in {"idle", "handles"}
  BY EmptySeq DEF TypeInv, PollInv, Discover, PollEnds, ReportNothing, ReadFails
<1>4. BatchInv' BY <1>3 DEF BatchInv
<1> QED BY <1>1, <1>2, <1>3, <1>4

\* What is read is the rest of the transcript.
LEMMA TypeInvRead ==
  ASSUME TypeInv, NEW f \in Files, ReadLines(f)
  PROVE  AgentInv' /\ DiskInv' /\ PollInv' /\ BatchInv' /\ UNCHANGED monVars
<1>1. UNCHANGED <<agentVars, diskVars, pending, recent, monVars, due>> BY DEF ReadLines
<1>2. AgentInv' /\ DiskInv' BY <1>1 DEF TypeInv, AgentInv, DiskInv, agentVars, diskVars
<1>3. todo' \subseteq Files /\ h' = f /\ pc' = "drain" /\ batch' = Unread(f)
      /\ UNCHANGED <<lines, cursor>>
  BY DEF ReadLines, TypeInv, PollInv, agentVars, monVars
<1> DEFINE s == lines[f]
           o == cursor[f].offset
<1>4. s \in Seq(LineKinds) /\ Len(s) \in Nat BY LenProperties DEF TypeInv, AgentInv
<1>5. o \in Nat /\ o <= Len(s) BY DEF TypeInv, MonInv
<1>6. batch' = SubSeq(s, o + 1, Len(s)) BY <1>3 DEF Unread
<1>7. h' \in Files /\ lines'[h'] = s /\ cursor'[h'].offset = o BY <1>3
<1> HIDE DEF s, o
<1>8. o \in 0 .. Len(s) /\ Len(s) \in o .. Len(s) BY <1>4, <1>5
<1>9. SubSeq(s, o + 1, Len(s)) \in Seq(LineKinds) /\ Len(SubSeq(s, o + 1, Len(s))) = Len(s) - o
  BY <1>4, <1>8, PartOfSeq
<1>10. batch' \in Seq(LineKinds) /\ o + Len(batch') = Len(s)
  BY <1>4, <1>5, <1>6, <1>9
<1>11. BatchEnd(h)' = Len(s) BY <1>7, <1>10 DEF BatchEnd
<1>12. BatchInv' BY <1>4, <1>6, <1>7, <1>11 DEF BatchInv
<1>13. PollInv' BY <1>3, <1>10 DEF PollInv
<1> QED BY <1>1, <1>2, <1>12, <1>13

\* An update that is not zero moves the cursor of its transcript past the batch.
LEMMA CursorMoves ==
  ASSUME TypeInv, ReportData \/ ReportEnd
  PROVE  /\ h \in Files /\ UNCHANGED <<lines, tail, old, markers, written, recent, todo>>
         /\ pc' = "handles" /\ h' = NoFile /\ batch' = << >>
         /\ cursor' \in [Files -> [offset : Nat, parents : BOOLEAN]]
         /\ BatchEnd(h) \in cursor[h].offset .. Len(lines[h])
         /\ cursor'[h].offset = BatchEnd(h)
         /\ cursor'[h].parents = (cursor[h].parents \/ About(h, batch) # {})
         /\ \A f \in Files \ {h} : cursor'[f] = cursor[f]
<1>1. /\ pc = "update" /\ Report
      /\ cursor' = [cursor EXCEPT ![h] = NextCursor(h, batch)]
  BY DEF ReportData, ReportEnd
<1>2. /\ h \in Files /\ BatchEnd(h) <= Len(lines[h]) /\ batch \in Seq(LineKinds)
      /\ cursor \in [Files -> [offset : Nat, parents : BOOLEAN]]
      /\ lines[h] \in Seq(LineKinds)
  BY <1>1 DEF TypeInv, BatchInv, PollInv, MonInv, AgentInv
<1>3. cursor[h].offset \in Nat /\ cursor[h].parents \in BOOLEAN
      /\ Len(batch) \in Nat /\ Len(lines[h]) \in Nat
  BY <1>2, LenProperties
<1>4. BatchEnd(h) \in Nat /\ BatchEnd(h) \in cursor[h].offset .. Len(lines[h])
  BY <1>2, <1>3 DEF BatchEnd
<1>5. NextCursor(h, batch) = [offset |-> BatchEnd(h),
                              parents |-> cursor[h].parents \/ About(h, batch) # {}]
  BY DEF NextCursor, BatchEnd
<1>6. NextCursor(h, batch) \in [offset : Nat, parents : BOOLEAN]
      /\ NextCursor(h, batch).offset = BatchEnd(h)
      /\ NextCursor(h, batch).parents = (cursor[h].parents \/ About(h, batch) # {})
  <2> DEFINE p == cursor[h].parents \/ About(h, batch) # {}
  <2>1. p \in BOOLEAN OBVIOUS
  <2> HIDE DEF p
  <2>2. [offset |-> BatchEnd(h), parents |-> p] \in [offset : Nat, parents : BOOLEAN]
    BY <1>4, <2>1
  <2> QED BY <1>5, <2>2 DEF p
<1> DEFINE next == NextCursor(h, batch)
<1>7. /\ cursor' \in [Files -> [offset : Nat, parents : BOOLEAN]] /\ cursor'[h] = next
      /\ \A f \in Files \ {h} : cursor'[f] = cursor[f]
  <2>1. next \in [offset : Nat, parents : BOOLEAN] BY <1>6
  <2>2. cursor' = [cursor EXCEPT ![h] = next] BY <1>1
  <2> HIDE DEF next
  <2> QED BY <1>2, <2>1, <2>2
<1>8. UNCHANGED <<lines, tail, old, markers, written, recent, todo>>
      /\ pc' = "handles" /\ h' = NoFile /\ batch' = << >>
  BY <1>1 DEF Report, agentVars, diskVars
<1> QED BY <1>2, <1>4, <1>6, <1>7, <1>8

LEMMA ShownSubType ==
  ASSUME TypeInv, h \in Files PROVE ShownSub(h, batch) \in SubTypes
<1>1. subs[h] \in SubTypes BY DEF TypeInv, MonInv
<1> DEFINE A == About(h, batch)
           P == {i \in A : batch[i] = "progress"}
           completed == \E i \in A \ P : \A j \in P : j < i
<1>2. ShownSub(h, batch)
        = IF A = {} THEN subs[h]
          ELSE [act |-> IF completed THEN "terminal" ELSE "working", slug |-> P # {}]
  BY DEF ShownSub
<1>3. (P # {}) \in BOOLEAN OBVIOUS
<1> HIDE DEF A, P, completed
<1>4. [act |-> IF completed THEN "terminal" ELSE "working", slug |-> P # {}] \in SubTypes
  BY <1>3 DEF SubTypes
<1> QED BY <1>1, <1>2, <1>4

LEMMA TypeInvReport ==
  ASSUME TypeInv, ReportData \/ ReportEnd PROVE TypeInv'
<1>1. /\ h \in Files /\ UNCHANGED <<lines, tail, old, markers, written, recent, todo>>
      /\ pc' = "handles" /\ h' = NoFile /\ batch' = << >>
      /\ cursor' \in [Files -> [offset : Nat, parents : BOOLEAN]]
      /\ BatchEnd(h) \in cursor[h].offset .. Len(lines[h])
      /\ cursor'[h].offset = BatchEnd(h)
      /\ \A f \in Files \ {h} : cursor'[f] = cursor[f]
  BY CursorMoves
<1>2. AgentInv' BY <1>1 DEF TypeInv, AgentInv
<1>3. DiskInv'
  <2>1. /\ pending' = pending \ {sessionID}
        /\ due' = [due EXCEPT ![h] = @ /\ (Ends => EndOnDisk(h))]
    BY DEF ReportData, ReportEnd, Report, consumePendingTerminal
  <2>2. due' \in [Files -> BOOLEAN] BY <2>1, Zenon DEF TypeInv, DiskInv
  <2> QED BY <1>1, <2>1, <2>2 DEF TypeInv, DiskInv
<1>4. MonInv'
  <2>1. ASSUME NEW f \in Files PROVE cursor'[f].offset <= Len(lines'[f])
    <3>1. cursor[f].offset <= Len(lines[f]) BY DEF TypeInv, MonInv
    <3>2. Len(lines[h]) \in Nat /\ cursor[h].offset \in Nat
      BY <1>1, LenProperties DEF TypeInv, AgentInv, MonInv
    <3> QED BY <1>1, <3>1, <3>2
  <2>2. subs' \in [Files -> SubTypes]
    <3>1. UNCHANGED subs \/ subs' = [subs EXCEPT ![h] = ShownSub(h, batch)]
      BY DEF ReportData, ReportEnd
    <3> QED BY <1>1, <3>1, ShownSubType DEF TypeInv, MonInv
  <2>3. counted' \in [Files -> Nat]
    <3>1. UNCHANGED counted \/ counted' = [counted EXCEPT ![h] = @ + MsgDelta(batch)]
      BY DEF ReportData, ReportEnd
    <3>2. MsgDelta(batch) = Cardinality(Positions(batch, Data)) BY DEF MsgDelta, Positions
    <3>3. batch \in Seq(LineKinds) BY DEF TypeInv, PollInv
    <3>4. MsgDelta(batch) \in Nat BY <3>2, <3>3, PositionsAreFinite, Zenon
    <3>5. counted \in [Files -> Nat] BY DEF TypeInv, MonInv
    <3> QED BY <1>1, <3>1, <3>4, <3>5
  <2> QED BY <1>1, <2>1, <2>2, <2>3 DEF MonInv
<1>5. PollInv' BY <1>1, EmptySeq DEF TypeInv, PollInv
<1>6. BatchInv' BY <1>1 DEF BatchInv
<1> QED BY <1>2, <1>3, <1>4, <1>5, <1>6 DEF TypeInv

LEMMA TypeInvNext == TypeInv /\ [Next]_vars => TypeInv'
<1> SUFFICES ASSUME TypeInv, [Next]_vars PROVE TypeInv' OBVIOUS
<1> USE DEF TypeInv
<1>1. CASE Next
  <2>1. \A f \in Files : Grows(f) BY <1>1, LinesOfStep
  <2>2. ASSUME NEW f \in Files, \/ \E k \in Kinds[f] : StartLine(f, k)
                               \/ EndLine(f) \/ LeaveWindow(f)
        PROVE  TypeInv'
    <3>1. UNCHANGED <<monVars, pc, h, batch>> BY <2>2 DEF StartLine, EndLine, LeaveWindow
    <3>2. AgentInv' /\ DiskInv' /\ PollInv' BY <2>2, TypeInvAgents
    <3>3. MonInv' BY <2>1, <3>1, CursorStays
    <3>4. BatchInv' BY <2>1, <3>1, BatchStays DEF monVars
    <3> QED BY <3>2, <3>3, <3>4
  <2>3. CASE (\E m \in Marker : WriteMarker(m)) \/ Tick \/ drainEndMarkers
    <3>1. UNCHANGED <<monVars, h, batch>>
          /\ (pc' \in {"drain", "update"} => pc \in {"drain", "update"})
      BY <2>3 DEF WriteMarker, Tick, drainEndMarkers
    <3>2. AgentInv' /\ DiskInv' /\ PollInv' BY <2>3, TypeInvMarkers
    <3>3. MonInv' BY <2>1, <3>1, CursorStays
    <3>4. BatchInv' BY <2>1, <3>1, BatchStays DEF monVars
    <3> QED BY <3>2, <3>3, <3>4
  <2>4. CASE Discover \/ PollEnds \/ ReportNothing \/ \E f \in Files : ReadFails(f)
    <3>1. AgentInv' /\ DiskInv' /\ PollInv' /\ BatchInv' /\ UNCHANGED monVars
      BY <2>4, TypeInvPoll
    <3>2. MonInv' BY <2>1, <3>1, CursorStays
    <3> QED BY <3>1, <3>2
  <2>5. ASSUME NEW f \in Files, ReadLines(f) PROVE TypeInv'
    <3>1. AgentInv' /\ DiskInv' /\ PollInv' /\ BatchInv' /\ UNCHANGED monVars
      BY <2>5, TypeInvRead
    <3>2. MonInv' BY <2>1, <3>1, CursorStays
    <3> QED BY <3>1, <3>2
  <2>6. CASE ReportData \/ ReportEnd BY <2>6, TypeInvReport
  <2> QED BY <1>1, <2>2, <2>3, <2>4, <2>5, <2>6 DEF Next, Poller, Parse, Environment
<1>2. CASE UNCHANGED vars
  BY <1>2 DEF vars, agentVars, diskVars, monVars, AgentInv, DiskInv, MonInv, PollInv,
              BatchInv, BatchEnd
<1> QED BY <1>1, <1>2

LEMMA TypeInvAlways == Spec => []TypeInv
BY TypeInvInit, TypeInvNext, PTL DEF Spec

\* Every variable keeps the shape its declaration gives it, and no cursor passes
\* the last complete line, for any number of transcripts (source.go:214-323).
THEOREM TypeCorrect == Spec => []TypeOK
BY TypeInvAlways, TypeInvTypes, PTL

-----------------------------------------------------------------------------
(* Messages are reported once *)

\* The first n lines of a transcript, as PartOfSeq and its kin name them.
LEMMA PrefixKept ==
  ASSUME NEW f \in Files, Grows(f), AgentInv, NEW n \in 0 .. Len(lines[f])
  PROVE  SubSeq(lines'[f], 1, n) = SubSeq(lines[f], 1, n)
<1>1. Len(lines[f]) \in Nat BY LenProperties DEF AgentInv
<1>2. 0 \in 0 .. Len(lines[f]) /\ n \in 0 .. Len(lines[f]) BY <1>1
<1>3. SubSeq(lines'[f], 0 + 1, n) = SubSeq(lines[f], 0 + 1, n) BY <1>2 DEF Grows
<1>4. 0 + 1 = 1 OBVIOUS
<1> QED BY <1>3, <1>4

LEMMA ReportedOnceStays ==
  ASSUME TypeInv, ReportedOnce, \A f \in Files : Grows(f), UNCHANGED monVars
  PROVE  ReportedOnce'
<1> SUFFICES ASSUME NEW f \in Files
             PROVE  counted'[f] = MsgDelta(SubSeq(lines'[f], 1, cursor'[f].offset))
  BY DEF ReportedOnce, MsgDelta
<1>1. counted' = counted /\ cursor' = cursor BY DEF monVars
<1>2. cursor[f].offset \in 0 .. Len(lines[f])
  BY LenProperties DEF TypeInv, AgentInv, MonInv
<1>3. SubSeq(lines'[f], 1, cursor[f].offset) = SubSeq(lines[f], 1, cursor[f].offset)
  BY <1>2, PrefixKept DEF TypeInv
<1> QED BY <1>1, <1>3 DEF ReportedOnce

\* What a report adds is what the batch has.
LEMMA ReportedOnceMoves ==
  ASSUME TypeInv, ReportedOnce, ReportData \/ ReportEnd PROVE ReportedOnce'
<1> SUFFICES ASSUME NEW f \in Files
             PROVE  counted'[f] = MsgDelta(SubSeq(lines'[f], 1, cursor'[f].offset))
  BY DEF ReportedOnce, MsgDelta
<1>1. /\ h \in Files /\ lines' = lines
      /\ BatchEnd(h) \in cursor[h].offset .. Len(lines[h])
      /\ cursor'[h].offset = BatchEnd(h)
      /\ \A g \in Files \ {h} : cursor'[g] = cursor[g]
  BY CursorMoves
<1>2. counted \in [Files -> Nat] /\ batch \in Seq(LineKinds) BY DEF TypeInv, MonInv, PollInv
<1>3. counted[f] = MsgDelta(SubSeq(lines[f], 1, cursor[f].offset)) BY DEF ReportedOnce
<1>4. counted' = [counted EXCEPT ![h] = @ + MsgDelta(batch)]
  <2>1. CASE ReportData BY <2>1 DEF ReportData
  <2>2. CASE ReportEnd
    <3>1. counted' = counted /\ ~HasData(batch) BY <2>2 DEF ReportEnd
    <3>2. MsgDelta(batch) = 0
      <4>1. {i \in DOMAIN batch : batch[i] \in Data} = {} BY <3>1 DEF HasData
      <4>2. Cardinality({}) = 0 BY FS_EmptySet
      <4> QED BY <4>1, <4>2 DEF MsgDelta
    <3>3. counted[h] + 0 = counted[h] BY <1>1, <1>2
    <3>4. counted = [counted EXCEPT ![h] = counted[h]] BY <1>1, <1>2
    <3> QED BY <3>1, <3>2, <3>3, <3>4
  <2> QED BY <2>1, <2>2
<1>5. CASE f = h
  <2> DEFINE s == lines[f]
             o == cursor[f].offset
             e == BatchEnd(h)
  <2>1. s \in Seq(LineKinds) /\ Len(s) \in Nat /\ o \in Nat
    BY LenProperties DEF TypeInv, AgentInv, MonInv
  <2>2. o \in 0 .. Len(s) /\ e \in o .. Len(s) BY <1>1, <1>5, <2>1 DEF TypeInv, MonInv
  <2>3. batch = SubSeq(s, o + 1, e)
    BY <1>5 DEF TypeInv, BatchInv, ReportData, ReportEnd
  <2>4. counted'[f] = MsgDelta(SubSeq(s, 1, o)) + MsgDelta(batch)
    BY <1>1, <1>2, <1>3, <1>4, <1>5
  <2>5. lines'[f] = s /\ cursor'[f].offset = e BY <1>1, <1>5
  <2> HIDE DEF s, o, e
  <2>6. Cardinality(Positions(SubSeq(s, 1, e), Data))
          = Cardinality(Positions(SubSeq(s, 1, o), Data))
              + Cardinality(Positions(SubSeq(s, o + 1, e), Data))
    BY <2>1, <2>2, CountsAddUp
  <2>7. MsgDelta(SubSeq(s, 1, e)) = MsgDelta(SubSeq(s, 1, o)) + MsgDelta(SubSeq(s, o + 1, e))
    BY <2>6 DEF MsgDelta, Positions
  <2> QED BY <2>3, <2>4, <2>5, <2>7
<1>6. CASE f # h
  <2>1. cursor'[f] = cursor[f] /\ counted'[f] = counted[f] BY <1>1, <1>2, <1>4, <1>6
  <2> QED BY <1>1, <1>3, <2>1
<1> QED BY <1>5, <1>6

\* A step reports an update, or leaves alone what the monitor has.
LEMMA ReportOrNot ==
  ASSUME Next PROVE ReportData \/ ReportEnd \/ UNCHANGED monVars
BY DEF Next, Poller, Parse, Environment, Discover, PollEnds, Tick, ReadLines, ReadFails,
       drainEndMarkers, ReportNothing, StartLine, EndLine, WriteMarker, LeaveWindow

LEMMA ReportedOnceNext == TypeInv /\ ReportedOnce /\ [Next]_vars => ReportedOnce'
<1> SUFFICES ASSUME TypeInv, ReportedOnce, [Next]_vars PROVE ReportedOnce' OBVIOUS
<1>1. CASE Next
  <2>1. \A f \in Files : Grows(f) BY <1>1, LinesOfStep DEF TypeInv
  <2> QED BY <1>1, <2>1, ReportOrNot, ReportedOnceMoves, ReportedOnceStays
<1>2. CASE UNCHANGED vars
  BY <1>2 DEF vars, agentVars, monVars, ReportedOnce, MsgDelta
<1> QED BY <1>1, <1>2

LEMMA ReportedOnceInit == Init => ReportedOnce
<1> SUFFICES ASSUME Init, NEW f \in Files
             PROVE  counted[f] = MsgDelta(SubSeq(lines[f], 1, cursor[f].offset))
  BY DEF ReportedOnce
<1>1. counted[f] = 0 /\ cursor[f].offset = 0 /\ lines[f] = << >> BY DEF Init
<1>2. SubSeq(<< >>, 1, 0) = << >> BY SubSeqEmpty
<1>3. {i \in DOMAIN << >> : << >>[i] \in Data} = {} OBVIOUS
<1>4. Cardinality({}) = 0 BY FS_EmptySet
<1> QED BY <1>1, <1>2, <1>3, <1>4 DEF MsgDelta

\* However a transcript is cut into batches, what the monitor was told of it is
\* the number of messages before its cursor (source.go:233-288, reader.go:101-116).
THEOREM MessagesAreReportedOnce == Spec => []ReportedOnce
BY TypeInvAlways, ReportedOnceInit, ReportedOnceNext, PTL DEF Spec

-----------------------------------------------------------------------------
(* One marker, one end *)

\* No two transcripts hold records of one session.
OneFileEach == \A f, g \in Files : RecordID[f] = RecordID[g] => f = g

\* What announces the end of f's session, on disk or indexed, is not yet reported.
Announced(f) == f \in pending \/ EndOnDisk(f) => due[f]

EndInv == \A f \in Files : RecordID[f] = f => Announced(f)

LEMMA EndInvInit == Init => EndInv
BY DEF Init, EndInv, Announced, EndOnDisk

\* An entry under the ID of such a transcript comes from a marker of its own.
LEMMA AcceptedOf ==
  ASSUME OneFileEach, TypeInv, NEW f \in Files, RecordID[f] = f, f \in Accepted
  PROVE  EndOnDisk(f)
<1>1. PICK m \in markers : Valid(m) /\ (RecordID[m.of] = f \/ m.of = f)
  BY DEF Accepted, Valid
<1>2. m.of \in Files /\ m.kind \in MarkerKinds BY DEF TypeInv, DiskInv, Marker
<1>3. m.of = f BY <1>1, <1>2 DEF OneFileEach
<1>4. NamesFile(m) BY <1>1, <1>2, <1>3 DEF Valid, MarkerKinds, NamesFile
<1> QED BY <1>3, <1>4 DEF EndOnDisk

LEMMA EndInvMarker ==
  ASSUME TypeInv, EndInv, NEW m \in Marker, WriteMarker(m) PROVE EndInv'
<1>1. /\ markers' = markers \cup {m} /\ due' = [due EXCEPT ![m.of] = @ \/ NamesFile(m)]
      /\ pending' = pending /\ m.of \in Files
  BY DEF WriteMarker, Marker
<1>2. due \in [Files -> BOOLEAN] BY DEF TypeInv, DiskInv
<1>3. ASSUME NEW f \in Files, RecordID[f] = f PROVE Announced(f)'
  <2>1. Announced(f) BY <1>3 DEF EndInv
  <2>2. due[f] => due'[f] BY <1>1, <1>2, Zenon
  <2>3. CASE EndOnDisk(f) \/ f \in pending
    BY <1>1, <2>1, <2>2, <2>3 DEF Announced
  <2>4. CASE ~EndOnDisk(f) /\ f \notin pending
    <3>1. EndOnDisk(f)' => f = m.of /\ NamesFile(m) BY <1>1, <2>4 DEF EndOnDisk, NamesFile
    <3>2. f = m.of /\ NamesFile(m) => due'[f] BY <1>1, <1>2, Zenon
    <3> QED BY <1>1, <2>4, <3>1, <3>2 DEF Announced
  <2> QED BY <2>3, <2>4
<1> QED BY <1>3 DEF EndInv

LEMMA EndInvDrain ==
  ASSUME OneFileEach, TypeInv, EndInv, drainEndMarkers PROVE EndInv'
<1>1. due' = due BY DEF drainEndMarkers
<1>2. CASE recent
  BY <1>1, <1>2 DEF drainEndMarkers, EndInv, Announced, EndOnDisk, NamesFile
<1>3. CASE ~recent
  <2>1. markers' = {} /\ pending' = pending \cup Accepted BY <1>3 DEF drainEndMarkers
  <2>2. ASSUME NEW f \in Files, RecordID[f] = f PROVE Announced(f)'
    <3>1. Announced(f) BY <2>2 DEF EndInv
    <3>2. f \in Accepted => EndOnDisk(f) BY <2>2, AcceptedOf
    <3>3. ~EndOnDisk(f)' BY <2>1 DEF EndOnDisk
    <3> QED BY <1>1, <2>1, <3>1, <3>2, <3>3 DEF Announced
  <2> QED BY <2>1, <2>2 DEF EndInv
<1> QED BY <1>2, <1>3

\* A report takes its entry along; the end stays due if there is another marker.
LEMMA EndInvReport ==
  ASSUME TypeInv, EndInv, ReportData \/ ReportEnd PROVE EndInv'
<1>1. /\ pending' = pending \ {sessionID}
      /\ due' = [due EXCEPT ![h] = @ /\ (Ends => EndOnDisk(h))]
  BY DEF ReportData, ReportEnd, Report, consumePendingTerminal
<1>2. markers' = markers /\ h \in Files BY CursorMoves
<1>3. due \in [Files -> BOOLEAN] BY DEF TypeInv, DiskInv
<1>4. ASSUME NEW f \in Files, RecordID[f] = f PROVE Announced(f)'
  <2>1. Announced(f) BY <1>4 DEF EndInv
  <2>2. EndOnDisk(f)' <=> EndOnDisk(f) BY <1>2 DEF EndOnDisk, NamesFile
  <2>3. CASE f = h
    <3>1. sessionID = f BY <1>4, <2>3 DEF sessionID
    <3>2. f \notin pending' BY <1>1, <3>1
    <3>3. EndOnDisk(f) /\ due[f] => due'[f] BY <1>1, <1>3, <2>3, Zenon
    <3> QED BY <2>1, <2>2, <3>2, <3>3 DEF Announced
  <2>4. CASE f # h
    <3>1. due'[f] = due[f] BY <1>1, <1>3, <2>4
    <3> QED BY <1>1, <2>1, <2>2, <3>1 DEF Announced
  <2> QED BY <2>3, <2>4
<1> QED BY <1>4 DEF EndInv

LEMMA EndInvStays ==
  ASSUME EndInv, UNCHANGED <<markers, pending, due>> PROVE EndInv'
BY DEF EndInv, Announced, EndOnDisk, NamesFile

LEMMA EndInvNext ==
  ASSUME OneFileEach PROVE TypeInv /\ EndInv /\ [Next]_vars => EndInv'
<1> SUFFICES ASSUME TypeInv, EndInv, [Next]_vars PROVE EndInv' OBVIOUS
<1>1. CASE Next
  <2>1. ASSUME NEW m \in Marker, WriteMarker(m) PROVE EndInv'
    BY <2>1, EndInvMarker
  <2>2. CASE drainEndMarkers BY <2>2, EndInvDrain
  <2>3. CASE ReportData \/ ReportEnd BY <2>3, EndInvReport
  <2>4. CASE UNCHANGED <<markers, pending, due>> BY <2>4, EndInvStays
  <2>5. \/ UNCHANGED <<markers, pending, due>>
        \/ drainEndMarkers \/ ReportData \/ ReportEnd
        \/ \E m \in Marker : WriteMarker(m)
    BY <1>1 DEF Next, Poller, Parse, Environment, Discover, PollEnds, Tick, ReadLines,
                ReadFails, ReportNothing, StartLine, EndLine, LeaveWindow, diskVars
  <2> QED BY <2>1, <2>2, <2>3, <2>4, <2>5
<1>2. CASE UNCHANGED vars BY <1>2, EndInvStays DEF vars, diskVars
<1> QED BY <1>1, <1>2

LEMMA EndInvSays == TypeInv /\ EndInv => EndAnnounced
<1> SUFFICES ASSUME TypeInv, EndInv, pc = "update", RecordID[h] = h, Ends PROVE due[h]
  BY DEF EndAnnounced
<1>1. h \in Files BY DEF TypeInv, BatchInv
<1>2. h \in pending BY DEF Ends, sessionID
<1> QED BY <1>1, <1>2 DEF EndInv, Announced

\* A session whose records carry the ID of its file is reported to end only when
\* a marker was written that has not been reported, although each marker is
\* indexed under two IDs, is drained while another transcript is parsed, and may
\* be followed by a second one before it is reported (source.go:238-320,
\* 397-429).  Two transcripts that hold records of one session are excluded: there
\* one entry of a marker may end the one and the second entry the other.
THEOREM OneEndPerMarker ==
  ASSUME OneFileEach PROVE Spec => []EndAnnounced
<1>1. TypeInv /\ EndInv /\ [Next]_vars => EndInv' BY EndInvNext
<1> QED BY <1>1, TypeInvAlways, EndInvInit, EndInvSays, PTL DEF Spec

-----------------------------------------------------------------------------
(* A completion is shown *)

\* Of the lines before n: line i is progress, j is a result after it, and no
\* progress comes after that.
CompletedBy(s, n, i, j) ==
  /\ i \in 1 .. n /\ j \in 1 .. n /\ i < j
  /\ s[i] = "progress" /\ s[j] = "result"
  /\ \A k \in j + 1 .. n : s[k] # "progress"

\* The cursor knows the sub-agent when its progress was consumed, and the monitor
\* shows it completed when its completion was.
SubInv ==
  \A f \in Files :
    /\ (\E i \in 1 .. cursor[f].offset : lines[f][i] = "progress") => cursor[f].parents
    /\ (\E i, j \in Nat : CompletedBy(lines[f], cursor[f].offset, i, j))
         => subs[f].act = "terminal"

LEMMA SubInvInit == Init => SubInv
<1> SUFFICES ASSUME Init, NEW f \in Files
             PROVE  /\ ~(\E i \in 1 .. cursor[f].offset : lines[f][i] = "progress")
                    /\ ~\E i, j \in Nat : CompletedBy(lines[f], cursor[f].offset, i, j)
  BY DEF SubInv
<1>1. cursor[f].offset = 0 BY DEF Init
<1> QED BY <1>1 DEF CompletedBy

LEMMA SubInvSays == TypeInv /\ SubInv => CompletionShown
<1> SUFFICES ASSUME TypeInv, SubInv, NEW f \in Files,
                    NEW b, b = SubSeq(lines[f], 1, cursor[f].offset),
                    NEW i \in DOMAIN b, NEW j \in DOMAIN b,
                    i < j, b[i] = "progress", b[j] = "result",
                    \A k \in j + 1 .. Len(b) : b[k] # "progress"
             PROVE  subs[f].act = "terminal"
  BY DEF CompletionShown
<1> DEFINE s == lines[f]
           n == cursor[f].offset
<1>1. s \in Seq(LineKinds) /\ Len(s) \in Nat /\ n \in Nat /\ n <= Len(s)
  BY LenProperties DEF TypeInv, AgentInv, MonInv
<1>2. b = SubSeq(s, 1, n) OBVIOUS
<1> HIDE DEF s, n
<1>3. 0 \in 0 .. Len(s) /\ n \in 0 .. Len(s) BY <1>1
<1>4. /\ Len(SubSeq(s, 0 + 1, n)) = n - 0 /\ DOMAIN SubSeq(s, 0 + 1, n) = 1 .. n - 0
      /\ \A k \in 1 .. n - 0 : SubSeq(s, 0 + 1, n)[k] = s[0 + k]
  BY <1>1, <1>3, PartOfSeq
<1>5. 0 + 1 = 1 /\ n - 0 = n /\ \A k \in 1 .. n : 0 + k = k BY <1>1
<1>6. Len(b) = n /\ DOMAIN b = 1 .. n /\ \A k \in 1 .. n : b[k] = s[k] BY <1>2, <1>4, <1>5
<1>7. \A k \in j + 1 .. n : k \in 1 .. n BY <1>1, <1>6
<1>8. CompletedBy(s, n, i, j) BY <1>6, <1>7 DEF CompletedBy
<1>9. i \in Nat /\ j \in Nat BY <1>6
<1> QED BY <1>8, <1>9 DEF SubInv, s, n

\* Lines that are appended do not matter.
LEMMA SubInvStays ==
  ASSUME TypeInv, SubInv, \A f \in Files : Grows(f), UNCHANGED monVars PROVE SubInv'
<1> SUFFICES ASSUME NEW f \in Files
             PROVE  /\ (\E i \in 1 .. cursor'[f].offset : lines'[f][i] = "progress")
                         => cursor'[f].parents
                    /\ (\E i, j \in Nat : CompletedBy(lines'[f], cursor'[f].offset, i, j))
                         => subs'[f].act = "terminal"
  BY DEF SubInv, CompletedBy
<1>1. cursor' = cursor /\ subs' = subs BY DEF monVars
<1> DEFINE n == cursor[f].offset
<1>2. n \in Nat /\ Len(lines[f]) \in Nat /\ n <= Len(lines[f])
  BY LenProperties DEF TypeInv, AgentInv, MonInv
<1> HIDE DEF n
<1>3. \A i \in 1 .. n : lines'[f][i] = lines[f][i]
  <2>1. \A i \in 1 .. n : i \in 1 .. Len(lines[f]) BY <1>2
  <2> QED BY <2>1 DEF Grows
<1>4. ASSUME NEW i \in Nat, NEW j \in Nat, CompletedBy(lines'[f], n, i, j)
      PROVE  CompletedBy(lines[f], n, i, j)
  <2>1. \A k \in j + 1 .. n : k \in 1 .. n BY <1>2
  <2> QED BY <1>3, <1>4, <2>1 DEF CompletedBy
<1> QED BY <1>1, <1>3, <1>4 DEF SubInv, n

\* What is shown of the sub-agent after a batch that ends with its completion, or
\* says nothing more of it.
LEMMA ShownAfter ==
  ASSUME NEW f, NEW b \in Seq(LineKinds),
         \/ /\ cursor[f].parents /\ subs[f].act = "terminal"
            /\ \A k \in DOMAIN b : b[k] # "progress"
         \/ \E j \in DOMAIN b :
              /\ b[j] = "result" /\ Known(f, b, j)
              /\ \A k \in DOMAIN b : b[k] = "progress" => k < j
  PROVE  ShownSub(f, b).act = "terminal"
<1> DEFINE A == About(f, b)
           P == {i \in A : b[i] = "progress"}
           completed == \E i \in A \ P : \A j \in P : j < i
<1>1. ShownSub(f, b)
        = IF A = {} THEN subs[f]
          ELSE [act |-> IF completed THEN "terminal" ELSE "working", slug |-> P # {}]
  BY DEF ShownSub
<1>2. A \subseteq DOMAIN b /\ \A i \in A : b[i] = "progress" \/ b[i] = "result" BY DEF About
<1>3. CASE /\ subs[f].act = "terminal"
           /\ \A k \in DOMAIN b : b[k] # "progress"
  <2>1. P = {} BY <1>2, <1>3
  <2>2. A # {} => completed BY <2>1
  <2> HIDE DEF A, P, completed
  <2> QED BY <1>1, <1>3, <2>2
<1>4. ASSUME NEW j \in DOMAIN b, b[j] = "result", Known(f, b, j),
             \A k \in DOMAIN b : b[k] = "progress" => k < j
      PROVE  ShownSub(f, b).act = "terminal"
  <2>1. j \in A /\ j \notin P BY <1>4 DEF About
  <2>2. \A k \in P : k < j BY <1>2, <1>4
  <2>3. A # {} /\ completed BY <2>1, <2>2
  <2> HIDE DEF A, P, completed
  <2> QED BY <1>1, <2>3
<1> QED BY <1>3, <1>4

\* The batch, line by line.
LEMMA BatchLines ==
  ASSUME TypeInv, pc = "update"
  PROVE  LET o == cursor[h].offset
         IN  /\ o \in Nat /\ BatchEnd(h) \in Nat /\ o <= BatchEnd(h)
             /\ batch \in Seq(LineKinds) /\ DOMAIN batch = 1 .. BatchEnd(h) - o
             /\ \A k \in 1 .. BatchEnd(h) - o : batch[k] = lines[h][o + k]
<1> DEFINE s == lines[h]
           o == cursor[h].offset
           e == BatchEnd(h)
<1>1. h \in Files /\ e <= Len(s) /\ batch = SubSeq(s, o + 1, e) /\ batch \in Seq(LineKinds)
  BY DEF TypeInv, BatchInv, PollInv
<1>2. s \in Seq(LineKinds) /\ Len(s) \in Nat /\ o \in Nat /\ o <= Len(s) /\ Len(batch) \in Nat
  BY <1>1, LenProperties DEF TypeInv, AgentInv, MonInv
<1>3. e = o + Len(batch) BY DEF BatchEnd
<1> HIDE DEF s, o, e
<1>4. o \in 0 .. Len(s) /\ e \in o .. Len(s) BY <1>1, <1>2, <1>3
<1>5. /\ DOMAIN SubSeq(s, o + 1, e) = 1 .. e - o
      /\ \A k \in 1 .. e - o : SubSeq(s, o + 1, e)[k] = s[o + k]
  BY <1>2, <1>4, PartOfSeq
<1>6. e \in Nat /\ o <= e BY <1>2, <1>4
<1> QED BY <1>1, <1>2, <1>5, <1>6 DEF s, o, e

\* A report consumes a completion only if it shows it.
LEMMA SubInvMoves ==
  ASSUME TypeInv, SubInv, ReportData \/ ReportEnd PROVE SubInv'
<1> SUFFICES ASSUME NEW f \in Files
             PROVE  /\ (\E i \in 1 .. cursor'[f].offset : lines'[f][i] = "progress")
                         => cursor'[f].parents
                    /\ (\E i, j \in Nat : CompletedBy(lines'[f], cursor'[f].offset, i, j))
                         => subs'[f].act = "terminal"
  BY DEF SubInv, CompletedBy
<1>1. /\ h \in Files /\ lines' = lines /\ cursor'[h].offset = BatchEnd(h)
      /\ cursor'[h].parents = (cursor[h].parents \/ About(h, batch) # {})
      /\ \A g \in Files \ {h} : cursor'[g] = cursor[g]
  BY CursorMoves
<1>2. subs \in [Files -> SubTypes] BY DEF TypeInv, MonInv
<1>3. CASE f # h
  <2>1. subs'[f] = subs[f] BY <1>1, <1>2, <1>3 DEF ReportData, ReportEnd
  <2> QED BY <1>1, <1>3, <2>1 DEF SubInv
<1>4. CASE f = h
  <2> DEFINE s == lines[h]
             o == cursor[h].offset
             e == BatchEnd(h)
             b == batch
  <2>1. pc = "update" BY DEF ReportData, ReportEnd
  <2>2. /\ o \in Nat /\ e \in Nat /\ o <= e /\ b \in Seq(LineKinds) /\ DOMAIN b = 1 .. e - o
        /\ \A k \in 1 .. e - o : b[k] = s[o + k]
    BY <2>1, BatchLines
  <2>3. /\ (\E i \in 1 .. o : s[i] = "progress") => cursor[h].parents
        /\ (\E i, j \in Nat : CompletedBy(s, o, i, j)) => subs[h].act = "terminal"
    BY <1>1 DEF SubInv
  <2>4. (HasData(b) /\ subs'[h] = ShownSub(h, b)) \/ (~HasData(b) /\ subs'[h] = subs[h])
    BY <1>1, <1>2 DEF ReportData, ReportEnd
  <2> HIDE DEF s, o, e, b
  <2>5. ASSUME NEW k \in o + 1 .. e PROVE k - o \in 1 .. e - o /\ b[k - o] = s[k]
    <3>1. k - o \in 1 .. e - o /\ o + (k - o) = k BY <2>2
    <3> QED BY <2>2, <3>1
  <2>6. ASSUME NEW i \in 1 .. e, s[i] = "progress"
        PROVE  cursor[h].parents \/ About(h, b) # {}
    <3>1. CASE i <= o
      <4>1. i \in 1 .. o BY <2>2, <3>1
      <4> QED BY <2>3, <2>6, <4>1
    <3>2. CASE i > o
      <4>1. i \in o + 1 .. e BY <2>2, <3>2
      <4>2. i - o \in DOMAIN b /\ b[i - o] = "progress" BY <2>2, <2>5, <2>6, <4>1
      <4>3. i - o \in About(h, b) BY <4>2, Zenon DEF About
      <4> QED BY <4>3
    <3> QED BY <2>2, <3>1, <3>2
  <2>7. ASSUME NEW i \in Nat, NEW j \in Nat, CompletedBy(s, e, i, j)
        PROVE  subs'[h].act = "terminal"
    <3>1. /\ i \in 1 .. e /\ j \in 1 .. e /\ i < j /\ s[i] = "progress" /\ s[j] = "result"
          /\ \A k \in j + 1 .. e : s[k] # "progress"
      BY <2>7 DEF CompletedBy
    <3>2. CASE j <= o
      <4>1. i \in 1 .. o /\ j \in 1 .. o BY <2>2, <3>1, <3>2
      <4>2. \A k \in j + 1 .. o : k \in j + 1 .. e BY <2>2
      <4>3. CompletedBy(s, o, i, j) BY <3>1, <4>1, <4>2 DEF CompletedBy
      <4>4. cursor[h].parents /\ subs[h].act = "terminal" BY <2>3, <3>1, <4>1, <4>3
      <4>5. \A k \in DOMAIN b : b[k] # "progress"
        <5>1. \A k \in 1 .. e - o : o + k \in j + 1 .. e BY <2>2, <3>1, <3>2
        <5> QED BY <2>2, <3>1, <5>1
      <4>6. ShownSub(h, b).act = "terminal" BY <2>2, <4>4, <4>5, ShownAfter
      <4> QED BY <2>4, <4>4, <4>6
    <3>3. CASE j > o
      <4> DEFINE jb == j - o
      <4>1. j \in o + 1 .. e BY <2>2, <3>1, <3>3
      <4>2. jb \in DOMAIN b /\ b[jb] = "result" BY <2>2, <2>5, <3>1, <4>1
      <4>3. Known(h, b, jb)
        <5>1. CASE i <= o
          <6>1. i \in 1 .. o BY <2>2, <3>1, <5>1
          <6> QED BY <2>3, <3>1, <6>1 DEF Known
        <5>2. CASE i > o
          <6>1. i \in o + 1 .. e BY <2>2, <3>1, <5>2
          <6>2. b[i - o] = "progress" BY <2>5, <3>1, <6>1
          <6>3. i - o \in 1 .. jb - 1 BY <2>2, <3>1, <5>2
          <6> QED BY <6>2, <6>3, Zenon DEF Known
        <5> QED BY <2>2, <3>1, <5>1, <5>2
      <4>4. ASSUME NEW k \in DOMAIN b, b[k] = "progress" PROVE k < jb
        <5>1. k \in 1 .. e - o /\ s[o + k] = "progress" BY <2>2, <4>4
        <5>2. o + k \in Nat /\ o + k <= e BY <2>2, <5>1
        <5>3. o + k # j BY <3>1, <5>1
        <5>4. ~(o + k \in j + 1 .. e) BY <3>1, <5>1
        <5> QED BY <2>2, <3>1, <5>1, <5>2, <5>3, <5>4
      <4>5. ShownSub(h, b).act = "terminal" BY <2>2, <4>2, <4>3, <4>4, ShownAfter
      <4>6. HasData(b) BY <4>2 DEF HasData, Data
      <4> QED BY <2>4, <4>5, <4>6
    <3> QED BY <2>2, <3>1, <3>2, <3>3
  <2>8. lines'[f] = s /\ cursor'[f].offset = e BY <1>1, <1>4 DEF s, e
  <2>9. cursor'[f].parents = (cursor[h].parents \/ About(h, b) # {}) BY <1>1, <1>4 DEF b
  <2> QED BY <1>4, <2>6, <2>7, <2>8, <2>9
<1> QED BY <1>3, <1>4

LEMMA SubInvNext == TypeInv /\ SubInv /\ [Next]_vars => SubInv'
<1> SUFFICES ASSUME TypeInv, SubInv, [Next]_vars PROVE SubInv' OBVIOUS
<1>1. CASE Next
  <2>1. \A f \in Files : Grows(f) BY <1>1, LinesOfStep DEF TypeInv
  <2> QED BY <1>1, <2>1, ReportOrNot, SubInvMoves, SubInvStays
<1>2. CASE UNCHANGED vars
  <2>1. UNCHANGED <<lines, cursor, subs>> BY <1>2 DEF vars, agentVars, monVars
  <2> QED BY <2>1 DEF SubInv, CompletedBy
<1> QED BY <1>1, <1>2

\* A sub-agent whose completion was consumed is shown completed, whether its
\* progress came in the same batch, in an earlier one, or in one that was only
\* consumed because the session ended (source.go:259-287, parser.go:232-386).
THEOREM CompletionsAreShown == Spec => []CompletionShown
BY TypeInvAlways, SubInvInit, SubInvNext, SubInvSays, PTL DEF Spec

=============================================================================
