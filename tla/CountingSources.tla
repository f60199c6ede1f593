--------------------------- MODULE CountingSources ---------------------------
(***************************************************************************)
(* The sources that report totals, sources/antigravity and                 *)
(* sources/opencode: their record of a session is rewritten, not appended  *)
(* to, so the cursor holds the totals of the last poll and an update the   *)
(* difference.  antigravity reads a JSON file, whose modification time it  *)
(* keeps in the cursor; opencode makes several queries to a database,      *)
(* without a transaction.  The agent writes between any two of their       *)
(* steps.  A tick of the clock is the resolution of modification times.    *)
(* Both discover only what is within a window; antigravity has the times   *)
(* from a cached walk, of which Discover here is one step (module          *)
(* Filewatch has its own, and the ticks of the directory's time).          *)
(*                                                                         *)
(* The monitor watches one session of one of them and appears as their     *)
(* caller: it keeps the cursor of an update that names its session and no  *)
(* other.  Its sweeps are in module Monitor.                               *)
(***************************************************************************)
EXTENDS Integers

CONSTANTS
  Sources,     \* the sources that may be watched
  Window,      \* the discover window; 0: none
  MaxTotal,    \* bound on messages and on tool calls
  MaxWrites,   \* bound on what the agent does
  MaxFailures, \* bound on the queries that fail
  MaxTime      \* bound on the clock

ASSUME CountingAssumption ==
  /\ Sources \subseteq {"antigravity", "opencode"}
  /\ Window \in Nat /\ MaxTotal \in Nat /\ MaxWrites \in Nat /\ MaxFailures \in Nat /\ MaxTime \in Nat \ {0}

VARIABLES
  source,   \* the source that is watched
  clock,
  record,   \* the session's record; whole: no write is under way
  dir,      \* antigravity's walker: whether the directory changed since it was
            \* listed, and the modification time the listing has of the file
  cursor,   \* monitor: the stored cursor
  counted,  \* monitor: messages and tool calls of the session
  shown,    \* monitor: its lifecycle state, or "none"
  pc,       \* where Parse is
  seen,     \* Parse: the modification time, archived flag and totals it has read
  writes,   \* what the agent has done so far
  failures, \* queries that failed so far
  written,  \* history: messages and tool calls ever written
  lost      \* history: the last write came after the file was read, within the
            \* tick that is in the cursor

agentVars   == <<record, writes, written, lost>>
monitorVars == <<cursor, counted, shown>>
vars == <<source, clock, agentVars, dir, monitorVars, pc, seen, failures>>

Kinds  == {"msg", "tool"}
Totals == [Kinds -> 0 .. MaxTotal]
Zero   == [k \in Kinds |-> 0]

PositivePart(n) == IF n > 0 THEN n ELSE 0

Init ==
  /\ source \in Sources /\ clock = 1
  /\ record = [exists |-> FALSE, whole |-> TRUE, mtime |-> 0, archived |-> FALSE, totals |-> Zero]
  /\ dir = [changed |-> TRUE, mtime |-> 0]
  /\ cursor = [mtime |-> 0, totals |-> Zero]
  /\ counted = Zero /\ shown = "none"
  /\ pc = "idle" /\ seen = [mtime |-> 0, archived |-> FALSE, totals |-> Zero]
  /\ writes = 0 /\ failures = 0 /\ written = Zero /\ lost = FALSE

-----------------------------------------------------------------------------
(* The agent *)

Write ==
  /\ writes < MaxWrites /\ writes' = writes + 1
  /\ UNCHANGED <<source, clock, monitorVars, pc, seen, failures>>

\* The record's totals become new.
SetTotals(new) ==
  written' = [k \in Kinds |-> written[k] + PositivePart(new[k] - record.totals[k])]

\* A file comes or goes: the directory's time changes, as no rewrite changes it.
ChangeDir == dir' = [changed |-> TRUE, mtime |-> 0]

\* antigravity rewrites the file in place: first it is empty, then whole again.
BeginRewrite ==
  /\ source = "antigravity" /\ record.whole /\ Write
  /\ record.exists \/ record.mtime = 0
  /\ record' = [record EXCEPT !.exists = TRUE, !.whole = FALSE, !.mtime = clock]
  /\ IF record.exists THEN UNCHANGED dir ELSE ChangeDir
  /\ UNCHANGED <<written, lost>>

EndRewrite(new) ==
  /\ source = "antigravity" /\ record.exists /\ ~record.whole /\ Write
  /\ record' = [record EXCEPT !.whole = TRUE, !.mtime = clock, !.totals = new]
  /\ SetTotals(new)
  /\ lost' = (clock = cursor.mtime \/ (pc = "commit" /\ clock = seen.mtime))
  /\ UNCHANGED dir

\* The file of another session is created or removed.
OtherFile ==
  /\ source = "antigravity" /\ ~dir.changed /\ Write
  /\ ChangeDir
  /\ UNCHANGED <<record, written, lost>>

\* opencode adds a row for the session, a message or a tool call, or deletes one;
\* updated_at of the session may be set with it.
CreateSession ==
  /\ source = "opencode" /\ ~record.exists /\ record.mtime = 0 /\ Write
  /\ record' = [record EXCEPT !.exists = TRUE, !.mtime = clock]
  /\ UNCHANGED <<dir, written, lost>>

ChangeTotal(k, new, updated) ==
  /\ source = "opencode" /\ record.exists /\ Write /\ updated \in {record.mtime, clock}
  /\ new \in {record.totals[k] - 1, record.totals[k] + 1} \cap 0 .. MaxTotal
  /\ record' = [record EXCEPT !.totals[k] = new, !.mtime = updated]
  /\ SetTotals([record.totals EXCEPT ![k] = new])
  /\ UNCHANGED <<dir, lost>>

\* time_archived is set or cleared.
Archive(updated) ==
  /\ source = "opencode" /\ record.exists /\ Write /\ updated \in {record.mtime, clock}
  /\ record' = [record EXCEPT !.archived = ~@, !.mtime = updated]
  /\ UNCHANGED <<dir, written, lost>>

\* The file is removed, or the session's rows are; it does not come back.
Remove ==
  /\ record.exists /\ Write
  /\ record' = [record EXCEPT !.exists = FALSE, !.archived = FALSE, !.totals = Zero]
  /\ IF source = "antigravity" THEN ChangeDir ELSE UNCHANGED dir
  /\ UNCHANGED <<written, lost>>

Tick ==
  /\ clock < MaxTime
  /\ clock' = clock + 1
  /\ UNCHANGED <<source, agentVars, dir, monitorVars, pc, seen, failures>>

Agent ==
  \/ BeginRewrite \/ OtherFile \/ CreateSession \/ Remove
  \/ \E new \in Totals : EndRewrite(new)
  \/ \E updated \in 0 .. clock :
       \/ Archive(updated)
       \/ \E k \in Kinds, new \in 0 .. MaxTotal : ChangeTotal(k, new, updated)

-----------------------------------------------------------------------------
(* The update, and what the monitor makes of it *)

Step(from, to) == pc = from /\ pc' = to

\* Mutant: the totals are subtracted the wrong way round, and not clamped.
MutantDelta(k) == cursor.totals[k] - seen.totals[k]

\* MessageCountDelta and ToolCallCountDelta.
Delta(k) == PositivePart(seen.totals[k] - cursor.totals[k])

\* Mutant: an archived session is reported ended only with new data.
MutantTerminal == seen.archived /\ \E k \in Kinds : Delta(k) > 0

\* SourceUpdate.Terminal; never set by antigravity.
Terminal == seen.archived

\* Mutant: the modification time is read when the update is made.
MutantNextCursor == [mtime |-> record.mtime, totals |-> seen.totals]

\* Mutant: the totals in the cursor stay behind.
MutantStaleCursor == [mtime |-> seen.mtime, totals |-> cursor.totals]

NextCursor == [mtime |-> seen.mtime, totals |-> seen.totals]

\* The lifecycle after an update: only an active session can be ended.
After(terminal) == IF shown = "active" /\ terminal THEN "terminal" ELSE "active"

\* The source returns an update with the session's ID, and the monitor commits it.
Commit ==
  /\ Step("commit", "idle")
  /\ counted' = [k \in Kinds |-> counted[k] + Delta(k)]
  /\ cursor' = NextCursor
  /\ shown' = After(Terminal)
  /\ UNCHANGED <<source, clock, agentVars, dir, seen, failures>>

\* A step that reads only.
Reads == UNCHANGED <<source, clock, agentVars, monitorVars, failures>>

InWindow(t) == Window = 0 \/ clock - t <= Window

-----------------------------------------------------------------------------
(* antigravity: Discover and Parse *)

\* The time the walker has of the file: it lists the directory anew only if that
\* has changed.
ListedTime ==
  CASE ~dir.changed -> dir.mtime
    [] dir.changed /\ record.exists -> record.mtime
    [] OTHER -> 0

DiscoverFile ==
  /\ source = "antigravity"
  /\ Step("idle", IF record.exists /\ InWindow(ListedTime) THEN "stat" ELSE "idle")
  /\ dir' = [changed |-> FALSE, mtime |-> ListedTime]
  /\ UNCHANGED seen /\ Reads

\* os.Stat fails, or finds the time that is in the cursor.
Unchanged ==
  /\ ~record.exists \/ record.mtime = cursor.mtime
  /\ Step("stat", "idle")
  /\ UNCHANGED <<seen, dir>> /\ Reads

Stat ==
  /\ record.exists /\ record.mtime # cursor.mtime
  /\ Step("stat", "read")
  /\ seen' = [seen EXCEPT !.mtime = record.mtime] /\ UNCHANGED dir /\ Reads

\* os.ReadFile fails, or what it returns is not JSON; the cursor that comes
\* with the error is not stored.
ReadFails ==
  /\ ~record.exists \/ ~record.whole
  /\ Step("read", "idle")
  /\ UNCHANGED <<seen, dir>> /\ Reads

ReadFile ==
  /\ record.exists /\ record.whole
  /\ Step("read", "commit")
  /\ seen' = [seen EXCEPT !.totals = record.totals] /\ UNCHANGED dir /\ Reads

-----------------------------------------------------------------------------
(* opencode: Discover and queryParseData *)

DiscoverSession ==
  /\ source = "opencode" /\ record.exists /\ InWindow(record.mtime)
  /\ Step("idle", "session")
  /\ UNCHANGED <<seen, dir>> /\ Reads

\* The session's row is gone: an update without data, which is committed too.
NoSession ==
  /\ ~record.exists
  /\ Step("session", "commit")
  /\ seen' = [seen EXCEPT !.archived = FALSE, !.totals = cursor.totals] /\ UNCHANGED dir /\ Reads

QuerySession ==
  /\ record.exists
  /\ Step("session", "messages")
  /\ seen' = [seen EXCEPT !.archived = record.archived] /\ UNCHANGED dir /\ Reads

CountMessages ==
  /\ Step("messages", "tools")
  /\ seen' = [seen EXCEPT !.totals.msg = record.totals.msg] /\ UNCHANGED dir /\ Reads

\* The latest tool and message, which are queried last, count nothing.
CountTools ==
  /\ Step("tools", "commit")
  /\ seen' = [seen EXCEPT !.totals.tool = record.totals.tool] /\ UNCHANGED dir /\ Reads

\* Any of the queries may fail, on a locked database for one.
QueryFails ==
  /\ failures < MaxFailures /\ failures' = failures + 1
  /\ pc \in {"session", "messages", "tools"} /\ pc' = "idle"
  /\ UNCHANGED <<source, clock, agentVars, dir, monitorVars, seen>>

-----------------------------------------------------------------------------
Poller ==
  \/ DiscoverFile \/ DiscoverSession \/ Commit
  \/ Unchanged \/ Stat \/ ReadFails \/ ReadFile
  \/ NoSession \/ QuerySession \/ CountMessages \/ CountTools

Next == Poller \/ QueryFails \/ Agent \/ Tick

\* The monitor goes on polling; agents and failures owe nothing.
Spec == Init /\ [][Next]_vars /\ WF_vars(Poller)

-----------------------------------------------------------------------------
(* What the sources guarantee *)

\* Every variable has its type.
TypeOK ==
  /\ source \in Sources /\ clock \in 1 .. MaxTime
  /\ record \in [exists : BOOLEAN, whole : BOOLEAN, mtime : 0 .. clock,
                 archived : BOOLEAN, totals : Totals]
  /\ dir \in [changed : BOOLEAN, mtime : 0 .. clock]
  /\ cursor \in [mtime : 0 .. clock, totals : Totals]
  /\ counted \in [Kinds -> 0 .. MaxTotal * MaxWrites]
  /\ shown \in {"none", "active", "terminal"}
  /\ pc \in {"idle", "stat", "read", "session", "messages", "tools", "commit"}
  /\ seen \in [mtime : 0 .. clock, archived : BOOLEAN, totals : Totals]
  /\ writes \in 0 .. MaxWrites /\ failures \in 0 .. MaxFailures
  /\ written \in [Kinds -> 0 .. MaxTotal * MaxWrites] /\ lost \in BOOLEAN

\* The differences add up: what the monitor has counted is at least what the
\* cursor says and at most what was ever written, through rollbacks, failed reads
\* and writes between the queries (antigravity/source.go:169-181,
\* opencode/parser.go:198-206).
CountedAsWritten ==
  \A k \in Kinds : cursor.totals[k] <= counted[k] /\ counted[k] <= written[k]

\* Discover returns the session.
Discovered ==
  InWindow(IF source = "antigravity" THEN ListedTime ELSE record.mtime)

\* The totals of a session that can be read are counted in the end, unless the
\* file was rewritten within the very tick in which it had been read, or the time
\* by which it is discovered lies before the window: for antigravity the time of
\* a listing made before the last rewrites (antigravity/source.go:69-76, 142-158,
\* opencode/parser.go:95-100, 124-212).
LatestCounted ==
  []<>(\/ cursor.totals = record.totals
       \/ ~record.exists \/ ~record.whole \/ lost \/ ~Discovered)

\* An archived session is shown as ended again and again, as long as it is
\* discovered: an end that the monitor passes over, because the session was new
\* or ended, is reported once more by the next poll (opencode/source.go:136-154).
EndShown ==
  []<>(shown = "terminal" \/ ~record.archived \/ ~Discovered)

=============================================================================
