----------------------------- MODULE ClaudeSource -----------------------------
(***************************************************************************)
(* The Claude Code source, sources/claude: it tails one JSONL transcript   *)
(* per session with internal/jsonl, recognises sub-agents and their        *)
(* completion, and turns the end markers a hook leaves in a directory into *)
(* terminal updates.  The monitor appears as its only caller, which keeps  *)
(* the cursor and the sub-agents of an update that is not zero; what it    *)
(* makes of Terminal is in module Monitor.                                 *)
(*                                                                         *)
(* Agents and the hook act at any time between the three steps of Parse:   *)
(* reading the transcript, draining the markers, and making the update.    *)
(* Positions count complete lines, as byte offsets do in the code.  Each   *)
(* session has at most one sub-agent, whose progress records carry a slug. *)
(***************************************************************************)
EXTENDS Integers, Sequences, FiniteSets

CONSTANTS
  Files,      \* transcripts, each named for the ID of its handle
  IDs,        \* session IDs: those of the files, and others
  RecordID,   \* the session ID the records of a file carry
  Kinds,      \* kinds of lines that are written to each file
  MaxLines,   \* bound on the lines of each file
  Endings,    \* kinds of end markers that are written for each file
  MaxMarkers, \* bound on the end markers
  Ageing      \* the files that may leave the discover window

\* A message; the tool_result that completes the sub-agent, also a message; the
\* sub-agent's progress; a line without data; a line above the size cap.
LineKinds == {"msg", "result", "progress", "noise", "long"}

\* A marker names the session and its transcript, or leaves the path out, or does
\* not pass validation.
MarkerKinds == {"full", "pathless", "invalid"}

ASSUME SourceAssumption ==
  /\ Files \subseteq IDs /\ RecordID \in [Files -> IDs]
  /\ Kinds \in [Files -> SUBSET LineKinds] /\ Endings \in [Files -> SUBSET MarkerKinds]
  /\ MaxLines \in [Files -> Nat] /\ MaxMarkers \in Nat /\ Ageing \subseteq Files

VARIABLES
  lines,    \* complete lines of each transcript
  tail,     \* the line at its end that has no newline yet
  old,      \* whether its modification time lies before the window
  markers,  \* end markers in sessionEndDir
  written,  \* how many were ever put there
  pending,  \* pendingTerminals: the IDs that have an entry
  recent,   \* lastMarkerScan is less than minScanInterval ago
  cursor,   \* monitor: line offset and known parents, per file
  subs,     \* monitor: what it shows of the session's sub-agent
  pc,       \* where the poll is
  todo,     \* handles it has still to parse
  h,        \* the handle it is at
  batch,    \* the lines ReadLines returned
  counted,  \* history: messages reported for each session
  due       \* history: an end marker by the ID of the file was written and not yet reported

agentVars == <<lines, tail, old>>
diskVars  == <<markers, written>>
monVars   == <<cursor, subs, counted>>
vars == <<agentVars, diskVars, pending, recent, monVars, pc, todo, h, batch, due>>

NoLine == "none"
NoFile == "none"

Marker == [of : Files, kind : MarkerKinds]
Valid(m) == m.kind # "invalid"

\* Sub-agent as the monitor shows it: its activity, and whether its slug is known.
NoSub  == [act |-> "none", slug |-> FALSE]

Init ==
  /\ lines = [f \in Files |-> << >>]
  /\ tail = [f \in Files |-> NoLine]
  /\ old = [f \in Files |-> FALSE]
  /\ markers = {} /\ written = 0 /\ pending = {} /\ recent = FALSE
  /\ cursor = [f \in Files |-> [offset |-> 0, parents |-> FALSE]]
  /\ subs = [f \in Files |-> NoSub]
  /\ pc = "idle" /\ todo = {} /\ h = NoFile /\ batch = << >>
  /\ counted = [f \in Files |-> 0]
  /\ due = [f \in Files |-> FALSE]

-----------------------------------------------------------------------------
(* Agents, the hook, the clock *)

Exists(f) == lines[f] # << >> \/ tail[f] # NoLine

\* A line arrives in two writes: its text, then its newline.
StartLine(f, k) ==
  /\ tail[f] = NoLine
  /\ Len(lines[f]) < MaxLines[f]
  /\ tail' = [tail EXCEPT ![f] = k]
  /\ old' = [old EXCEPT ![f] = FALSE]
  /\ UNCHANGED <<lines, diskVars, pending, recent, monVars, pc, todo, h, batch, due>>

EndLine(f) ==
  /\ tail[f] # NoLine
  /\ lines' = [lines EXCEPT ![f] = Append(@, tail[f])]
  /\ tail' = [tail EXCEPT ![f] = NoLine]
  /\ old' = [old EXCEPT ![f] = FALSE]
  /\ UNCHANGED <<diskVars, pending, recent, monVars, pc, todo, h, batch, due>>

\* The end is indexed under the ID of the file: that of the records, or the stem
\* of the path.
NamesFile(m) == m.kind = "full" \/ (m.kind = "pathless" /\ RecordID[m.of] = m.of)

\* The hook of a session that ends.
WriteMarker(m) ==
  /\ written < MaxMarkers /\ m.kind \in Endings[m.of]
  /\ markers' = markers \cup {m}
  /\ written' = written + 1
  /\ due' = [due EXCEPT ![m.of] = @ \/ NamesFile(m)]
  /\ UNCHANGED <<agentVars, pending, recent, monVars, pc, todo, h, batch>>

\* minScanInterval passes; a transcript leaves the discover window.
Tick ==
  /\ recent /\ recent' = FALSE
  /\ UNCHANGED <<agentVars, diskVars, pending, monVars, pc, todo, h, batch, due>>

LeaveWindow(f) ==
  /\ f \in Ageing /\ Exists(f) /\ ~old[f]
  /\ old' = [old EXCEPT ![f] = TRUE]
  /\ UNCHANGED <<lines, tail, diskVars, pending, recent, monVars, pc, todo, h, batch, due>>

-----------------------------------------------------------------------------
(* Discover, and the first two steps of Parse *)

Discover ==
  /\ pc = "idle"
  /\ todo' = {f \in Files : Exists(f) /\ ~old[f]}
  /\ pc' = "handles"
  /\ UNCHANGED <<agentVars, diskVars, pending, recent, monVars, h, batch, due>>

PollEnds ==
  /\ pc = "handles" /\ todo = {}
  /\ pc' = "idle"
  /\ UNCHANGED <<agentVars, diskVars, pending, recent, monVars, todo, h, batch, due>>

\* Mutant: what follows the last newline is taken for a line.
MutantUnread(f) ==
  SubSeq(lines[f], cursor[f].offset + 1, Len(lines[f]))
    \o (IF tail[f] = NoLine THEN << >> ELSE <<"noise">>)

Unread(f) == SubSeq(lines[f], cursor[f].offset + 1, Len(lines[f]))

TooLong(b) == \E i \in DOMAIN b : b[i] = "long"

ReadLines(f) ==
  /\ pc = "handles" /\ f \in todo
  /\ ~TooLong(Unread(f))
  /\ todo' = todo \ {f}
  /\ h' = f
  /\ batch' = Unread(f)
  /\ pc' = "drain"
  /\ UNCHANGED <<agentVars, diskVars, pending, recent, monVars, due>>

\* ErrLineTooLong: no update, the cursor stays, the markers are not looked at.
ReadFails(f) ==
  /\ pc = "handles" /\ f \in todo
  /\ TooLong(Unread(f))
  /\ todo' = todo \ {f}
  /\ UNCHANGED <<agentVars, diskVars, pending, recent, monVars, pc, h, batch, due>>

\* Mutant: a marker is indexed under its session_id alone.
MutantAccepted == {RecordID[m.of] : m \in {k \in markers : Valid(k)}}

\* A valid marker is indexed under its session_id, and under the stem of the path
\* it names, if it names one.
Accepted ==
  {RecordID[m.of] : m \in {k \in markers : Valid(k)}}
    \cup {m.of : m \in {k \in markers : k.kind = "full"}}

drainEndMarkers ==
  /\ pc = "drain"
  /\ IF recent THEN UNCHANGED <<markers, pending, recent>>
     ELSE markers' = {} /\ pending' = pending \cup Accepted /\ recent' = TRUE
  /\ pc' = "update"
  /\ UNCHANGED <<agentVars, written, monVars, todo, h, batch, due>>

-----------------------------------------------------------------------------
(* What the parser makes of a batch *)

Data == {"msg", "result"}

MutantHasData(b) == b # << >> /\ b[1] \in Data   \* mutant: looks at one line only
HasData(b) == \E i \in DOMAIN b : b[i] \in Data

MsgDelta(b) == Cardinality({i \in DOMAIN b : b[i] \in Data})

\* The parent map of the cursor knows the sub-agent before line i is parsed.
Known(f, b, i) == cursor[f].parents \/ \E j \in 1..i - 1 : b[j] = "progress"

\* The lines of the batch that say something of the sub-agent.
About(f, b) ==
  {i \in DOMAIN b : b[i] = "progress" \/ (b[i] = "result" /\ Known(f, b, i))}

\* Subagents of the update replaces what is shown, unless it is empty.  An entry
\* made for a completion alone has no slug.
ShownSub(f, b) ==
  LET A == About(f, b)
      P == {i \in A : b[i] = "progress"}
      completed == \E i \in A \ P : \A j \in P : j < i
  IN  IF A = {} THEN subs[f]
      ELSE [act |-> IF completed THEN "terminal" ELSE "working", slug |-> P # {}]

\* Mutant: the parent map is not carried over in the cursor.
MutantNextCursor(f, b) == [offset |-> cursor[f].offset + Len(b), parents |-> FALSE]

NextCursor(f, b) ==
  [offset  |-> cursor[f].offset + Len(b),
   parents |-> cursor[f].parents \/ About(f, b) # {}]

-----------------------------------------------------------------------------
(* The last step of Parse, and what the monitor does with the update *)

\* The ID under which an end is looked up.
sessionID == IF HasData(batch) THEN RecordID[h] ELSE h

Ends == sessionID \in pending

MutantConsume == pending   \* mutant: the entry is not deleted

consumePendingTerminal == pending \ {sessionID}

\* An end of the session that came after the last scan.
EndOnDisk(f) == \E m \in markers : NamesFile(m) /\ m.of = f

\* The update is not zero: the monitor commits it.
Report ==
  /\ pending' = consumePendingTerminal
  /\ due' = [due EXCEPT ![h] = @ /\ (Ends => EndOnDisk(h))]
  /\ pc' = "handles" /\ h' = NoFile /\ batch' = << >>
  /\ UNCHANGED <<agentVars, diskVars, recent, todo>>

\* Mutant: the old cursor is returned with the update.
MutantReportData ==
  /\ pc = "update" /\ HasData(batch)
  /\ Report
  /\ subs' = [subs EXCEPT ![h] = ShownSub(h, batch)]
  /\ counted' = [counted EXCEPT ![h] = @ + MsgDelta(batch)]
  /\ UNCHANGED cursor

ReportData ==
  /\ pc = "update" /\ HasData(batch)
  /\ Report
  /\ cursor' = [cursor EXCEPT ![h] = NextCursor(h, batch)]
  /\ subs' = [subs EXCEPT ![h] = ShownSub(h, batch)]
  /\ counted' = [counted EXCEPT ![h] = @ + MsgDelta(batch)]

\* No data, but an end: the update has nothing else in it.
ReportEnd ==
  /\ pc = "update" /\ ~HasData(batch) /\ Ends
  /\ Report
  /\ cursor' = [cursor EXCEPT ![h] = NextCursor(h, batch)]
  /\ UNCHANGED <<subs, counted>>

\* A zero update: the monitor does not store the cursor.
ReportNothing ==
  /\ pc = "update" /\ ~HasData(batch) /\ ~Ends
  /\ pc' = "handles" /\ h' = NoFile /\ batch' = << >>
  /\ UNCHANGED <<agentVars, diskVars, pending, recent, monVars, todo, due>>

-----------------------------------------------------------------------------
Parse ==
  \/ \E f \in Files : ReadLines(f) \/ ReadFails(f)
  \/ drainEndMarkers \/ ReportData \/ ReportEnd \/ ReportNothing

Poller == Discover \/ Parse \/ PollEnds

Environment ==
  \/ \E m \in Marker : WriteMarker(m)
  \/ \E f \in Files :
       \/ \E k \in Kinds[f] : StartLine(f, k)
       \/ EndLine(f)
       \/ LeaveWindow(f)

Next == Poller \/ Tick \/ Environment

Spec == Init /\ [][Next]_vars

\* Run polls again and again, and the clock does not stop.
FairSpec == Spec /\ WF_vars(Poller) /\ WF_vars(Tick)

-----------------------------------------------------------------------------
(* Properties *)

\* Every variable has the shape its declaration says, and no cursor lies beyond
\* the last complete line.
TypeOK ==
  /\ lines \in [Files -> Seq(LineKinds)]
  /\ tail \in [Files -> LineKinds \cup {NoLine}]
  /\ old \in [Files -> BOOLEAN]
  /\ markers \subseteq Marker /\ written \in 0..MaxMarkers
  /\ pending \subseteq IDs /\ recent \in BOOLEAN
  /\ \A f \in Files : /\ cursor[f].offset \in 0..Len(lines[f])
                      /\ cursor[f].parents \in BOOLEAN
  /\ subs \in [Files -> [act : {"none", "working", "terminal"}, slug : BOOLEAN]]
  /\ pc \in {"idle", "handles", "drain", "update"}
  /\ todo \subseteq Files /\ h \in Files \cup {NoFile} /\ batch \in Seq(LineKinds)
  /\ counted \in [Files -> Nat] /\ due \in [Files -> BOOLEAN]

\* However the lines are cut into batches, and whether a batch was reported or
\* left for later, each message before the cursor was reported once
\* (source.go:233-288, reader.go:101-116).
ReportedOnce ==
  \A f \in Files : counted[f] = MsgDelta(SubSeq(lines[f], 1, cursor[f].offset))

\* Nor does the cut hide a completion: when the last consumed line about a
\* sub-agent is the result of one whose progress had been consumed, in this
\* batch or any before, the monitor shows it completed (parser.go:232-386).
CompletionShown ==
  \A f \in Files :
    LET b == SubSeq(lines[f], 1, cursor[f].offset)
    IN  (\E i, j \in DOMAIN b : /\ i < j /\ b[i] = "progress" /\ b[j] = "result"
                                /\ \A k \in j + 1..Len(b) : b[k] # "progress")
          => subs[f].act = "terminal"

\* One marker ends a session once: where records carry the ID of their file no
\* end is reported that no marker written since the last one announced.
EndAnnounced ==
  pc = "update" /\ RecordID[h] = h /\ Ends => due[h]

\* A session whose end marker was written is reported to have ended, as long as
\* its transcript can be read and is discovered (source.go:238-288, 315-320).  A
\* marker without a path, for a transcript whose records carry another ID than
\* its file, is not promised this: its entry is found only with further data.
Unreadable(f) == TooLong(Unread(f))

EndReported ==
  \A f \in Files : (due[f] /\ Exists(f)) ~> (~due[f] \/ Unreadable(f) \/ old[f])

\* Every message is reported in the end, under the same conditions.
Behind(f) == MsgDelta(Unread(f)) > 0

MessagesReported == \A f \in Files : Behind(f) ~> (~Behind(f) \/ Unreadable(f) \/ old[f])

=============================================================================
