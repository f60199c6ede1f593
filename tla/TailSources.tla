----------------------------- MODULE TailSources -----------------------------
(***************************************************************************)
(* The sources that tail JSON lines, sources/codex, sources/cursor and     *)
(* sources/pi: they find transcripts with a walker and read each from the  *)
(* byte offset in the cursor.  The monitor watches one of them; it appears *)
(* as the caller, which keeps a cursor only with an update that names its  *)
(* session and no error.                                                   *)
(*                                                                         *)
(* Positions count complete lines.  A line is what its parser makes of it. *)
(* Parse is one step: of what others change it only reads the transcript.  *)
(***************************************************************************)
EXTENDS Filewatch, SequencesExt

CONSTANTS
  Sources,  \* the sources that may be watched
  Kinds,    \* kinds of lines that are written to each file
  MaxLines  \* bound on the lines of each file

\* An envelope with session_meta; the header of a bare transcript, which counts
\* at the beginning only; a message; a line above the size cap, or beyond the file's.
LineKinds == {"meta", "header", "msg", "long"}

ASSUME TailAssumption ==
  /\ Sources \subseteq {"codex", "cursor", "pi"}
  /\ Kinds \in [Files -> SUBSET LineKinds]
  /\ MaxLines \in [Files -> Nat]

VARIABLES
  source,   \* the one that is watched
  lines,    \* complete lines of each transcript
  cursor,   \* monitor: how many of them the stored cursor is past
  counted,  \* monitor: messages of each session
  parsed    \* handles the poll is done with

tailVars == <<source, lines, cursor, counted, parsed>>
vars     == <<watchVars, tailVars>>

Init ==
  /\ WatchInit /\ source \in Sources
  /\ lines = [f \in Files |-> << >>]
  /\ cursor = [f \in Files |-> 0]
  /\ counted = [f \in Files |-> 0]
  /\ parsed = {}

-----------------------------------------------------------------------------
(* Agents *)

CreateNode(x) ==
  /\ Create(x)
  /\ UNCHANGED <<clock, busy, walkVars, source, lines, cursor, counted, parsed>>

AppendLine(f, k) ==
  /\ k \in Kinds[f] /\ Len(lines[f]) < MaxLines[f]
  /\ Touch(f)
  /\ lines' = [lines EXCEPT ![f] = Append(@, k)]
  /\ UNCHANGED <<clock, busy, walkVars, source, cursor, counted, parsed>>

RemoveFile(f) ==
  /\ Delete(f)
  /\ UNCHANGED <<clock, busy, walkVars, source, lines, cursor, counted, parsed>>

-----------------------------------------------------------------------------
(* Parse *)

Handles == {e.path : e \in listed}

Unread(f) == SubSeq(lines[f], cursor[f] + 1, Len(lines[f]))

\* ReadLines fails: no such file, a file or a line above its size cap.
ReadFails(f) ==
  ~Exists(f) \/ Contains(Unread(f), "long")

\* parseLine of codex, called for a batch that begins at the cursor: whether it
\* finds the session's ID.
FindsID(f) ==
  \/ Contains(Unread(f), "meta")
  \/ cursor[f] = 0 /\ Unread(f) # << >> /\ Head(Unread(f)) = "header"

\* cursor and pi take it from the handle, if there are lines at all.
HasLines(f) == Unread(f) # << >>

\* Whether the update has a SessionID.
Named(f) == IF source = "codex" THEN FindsID(f) ELSE HasLines(f)

\* MessageCountDelta of a batch.
Messages(batch) == Cardinality({i \in DOMAIN batch : batch[i] = "msg"})

Parsing(f) == WalkDone /\ f \in Handles \ parsed

\* Mutant: the bytes of a newline that is not there are counted too.
MutantNextOffset(f) == Len(lines[f]) + 1

\* The offset after the last complete line.
NextOffset(f) == Len(lines[f])

\* An update the monitor commits, with the cursor after the last line.
ParseUpdate(f) ==
  /\ Parsing(f)
  /\ ~ReadFails(f) /\ Named(f)
  /\ counted' = [counted EXCEPT ![f] = @ + Messages(Unread(f))]
  /\ cursor' = [cursor EXCEPT ![f] = NextOffset(f)]
  /\ parsed' = parsed \cup {f}
  /\ UNCHANGED <<watchVars, source, lines>>

\* Mutant: the monitor keeps the cursor of an update it does not commit.
MutantParseNothing(f) ==
  /\ Parsing(f)
  /\ ~ReadFails(f) /\ ~Named(f)
  /\ cursor' = [cursor EXCEPT ![f] = NextOffset(f)]
  /\ parsed' = parsed \cup {f}
  /\ UNCHANGED <<watchVars, source, lines, counted>>

\* An update without SessionID: the monitor takes it for no new data.
ParseNothing(f) ==
  /\ Parsing(f)
  /\ ~ReadFails(f) /\ ~Named(f)
  /\ parsed' = parsed \cup {f}
  /\ UNCHANGED <<watchVars, source, lines, cursor, counted>>

ParseFails(f) ==
  /\ Parsing(f)
  /\ ReadFails(f)
  /\ parsed' = parsed \cup {f}
  /\ UNCHANGED <<watchVars, source, lines, cursor, counted>>

\* PollOnce is done with the source.
SourceDone ==
  /\ WalkDone /\ Handles \subseteq parsed
  /\ busy' = FALSE
  /\ late' = {} /\ now' = Absent /\ listed' = {} /\ parsed' = {}
  /\ UNCHANGED <<clock, mtime, fresh, hidden, cache, stack, source, lines, cursor, counted>>

\* The context is cancelled between two handles.
PollCancelled ==
  /\ WalkDone /\ Handles \ parsed # {} /\ clock < MaxTime
  /\ Abandon
  /\ parsed' = {}
  /\ UNCHANGED <<source, lines, cursor, counted>>

Poller ==
  \/ Walk /\ UNCHANGED tailVars
  \/ \E f \in Files : ParseUpdate(f) \/ ParseNothing(f) \/ ParseFails(f)
  \/ SourceDone

Next ==
  \/ Poller
  \/ Cancelled /\ UNCHANGED tailVars
  \/ PollCancelled
  \/ Tick /\ UNCHANGED tailVars
  \/ \E x \in Nodes : CreateNode(x)
  \/ \E f \in Files : RemoveFile(f) \/ \E k \in LineKinds : AppendLine(f, k)

Spec == Init /\ [][Next]_vars

\* Run calls PollOnce at every tick of its timer, and time passes.
FairSpec == Spec /\ WF_vars(Poller) /\ WF_vars(Tick /\ UNCHANGED tailVars)

-----------------------------------------------------------------------------
(* What the sources guarantee *)

\* Every variable of the sources and of their walkers has its type.
TypeOK ==
  /\ WatchTypeOK /\ source \in Sources
  /\ lines \in [Files -> Seq(LineKinds)]
  /\ \A f \in Files : cursor[f] \in 0 .. Len(lines[f])
  /\ counted \in [Files -> Nat]
  /\ parsed \subseteq Files

\* The monitor has counted the lines up to its cursor, each once, whatever
\* batches they came in and however often one was read again (codex/source.go:129-153,
\* cursor/source.go:129-156, pi/source.go:133-160, monitor.go:102-123).
CountedOnce ==
  \A f \in Files : counted[f] = Messages(SubSeq(lines[f], 1, cursor[f]))

\* How many lines are bound to be reported: all, but in codex only those up to
\* the last line that gives the session's ID.
Due(f) ==
  LET ids == {i \in DOMAIN lines[f] : \/ lines[f][i] = "meta"
                                      \/ i = 1 /\ lines[f][i] = "header"}
  IN IF source # "codex" THEN Len(lines[f])
     ELSE IF ids = {} THEN 0 ELSE CHOOSE i \in ids : \A j \in ids : j <= i

\* A transcript that can be read and is in the window, as far as the walker
\* knows, has all its lines reported in the end.
LinesReported ==
  \A f \in Files :
    []<>(\/ cursor[f] >= Due(f)
         \/ ReadFails(f) \/ ~PassesAge(mtime[f], clock) \/ Aged(f, clock) \/ Path(f) \cap hidden # {})

\* docs/source-implementation.md:49: "If there is no new data, return a zero
\* `SourceUpdate` (one where `SessionID == ""`)".  So a later batch that holds
\* messages is not taken for no new data.
LaterBatchesAreNamed ==
  [][\A f \in Files :
       ParseNothing(f) /\ cursor[f] > 0 => Messages(Unread(f)) = 0]_vars

=============================================================================
