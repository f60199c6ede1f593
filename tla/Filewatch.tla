------------------------------ MODULE Filewatch ------------------------------
(***************************************************************************)
(* internal/filewatch: the walk by which a source finds its transcripts,   *)
(* and the cache of directory listings it keeps between walks.             *)
(*                                                                         *)
(* The file system changes between any two steps of a walk.  A tick of the *)
(* clock is the resolution of modification times: what happens within one  *)
(* tick leaves the same time.  Every source gives its walker one root.      *)
(* Files are those that match the pattern.  Symbolic links are left out.   *)
(***************************************************************************)
EXTENDS Integers, Sequences, FiniteSets

CONSTANTS
  Root,      \* the directory the walker is rooted at
  Dirs,      \* directories, the root included
  Files,     \* files that match the pattern
  In,        \* the directory a file or a directory other than the root lies in
  Removable, \* files that may be removed
  MaxAge,    \* w.maxAge in ticks; 0: no limit
  MaxTime    \* bound on the clock

Nodes == Dirs \cup Files

ASSUME WatchAssumption ==
  /\ Root \in Dirs /\ Dirs \cap Files = {}
  /\ In \in [Nodes \ {Root} -> Dirs]
  /\ Removable \subseteq Files /\ MaxAge \in Nat /\ MaxTime \in Nat \ {0}

VARIABLES
  clock,
  mtime,    \* modification time of each file and directory, Absent or Gone
  cache,    \* w.dirCache
  fresh,    \* history: directories read since the clock ticked
  hidden,   \* history: what was created within the tick in which the directory
            \* it lies in was read, after that
  late,     \* history: what was created since the walk began
  busy,     \* whether the source is being polled
  now,      \* Discover: the time it began, or Absent
  stack,    \* walkDir: the directories being walked, the innermost first
  listed    \* Discover: results

seenVars  == <<fresh, hidden, late>>
walkVars  == <<cache, now, stack, listed>>
watchVars == <<clock, mtime, seenVars, busy, walkVars>>

Absent == 0   \* not yet created
Gone   == -1  \* removed

Entry == [path : Files, mtime : 1 .. MaxTime]

Snapshot == [mtime : 0 .. MaxTime, files : SUBSET Entry, subdirs : SUBSET Dirs]

NotCached == [mtime |-> Absent, files |-> {}, subdirs |-> {}]

\* A call of walkDir: it has compared the directory's time with the cache and
\* found it there ("hit") or not ("stat"), or has read the directory ("read").
Frame == [dir : Dirs, mtime : 1 .. MaxTime, step : {"hit", "stat", "read"},
          left : SUBSET Nodes, files : SUBSET Entry, subdirs : SUBSET Dirs]

WatchInit ==
  /\ clock = 1
  /\ mtime = [x \in Nodes |-> Absent]
  /\ cache = [d \in Dirs |-> NotCached]
  /\ fresh = {} /\ hidden = {} /\ late = {}
  /\ busy = FALSE /\ now = Absent /\ stack = << >> /\ listed = {}

-----------------------------------------------------------------------------
(* The file system *)

Exists(x) == mtime[x] \notin {Absent, Gone}

\* The times after something was created or removed at x.
Changed(x, time) ==
  [mtime EXCEPT ![x] = time, ![IF x = Root THEN x ELSE In[x]] = clock]

Create(x) ==
  /\ mtime[x] = Absent
  /\ x # Root => Exists(In[x])
  /\ mtime' = [Changed(x, clock) EXCEPT ![x] = clock]
  /\ hidden' = IF x # Root /\ In[x] \in fresh THEN hidden \cup {x} ELSE hidden
  /\ late' = IF busy THEN late \cup {x} ELSE late
  /\ UNCHANGED fresh

Touch(f) ==
  /\ Exists(f)
  /\ mtime' = [mtime EXCEPT ![f] = clock]
  /\ UNCHANGED seenVars

Delete(f) ==
  /\ f \in Removable /\ Exists(f)
  /\ mtime' = Changed(f, Gone)
  /\ UNCHANGED seenVars

Tick ==
  /\ clock < MaxTime
  /\ clock' = clock + 1
  /\ fresh' = {}
  /\ UNCHANGED <<mtime, hidden, late, busy, walkVars>>

-----------------------------------------------------------------------------
(* Discover *)

PassesAge(time, at) == MaxAge = 0 \/ at - time <= MaxAge

Cached(d) == cache[d].mtime = mtime[d]

Call(d, step, left) ==
  [dir |-> d, mtime |-> mtime[d], step |-> step, left |-> left, files |-> {}, subdirs |-> {}]

\* Mutant: a directory that has not changed is not descended into.
MutantCachedSubdirs(d) == {}

\* The subdirectories that are walked when a directory has not changed.
CachedSubdirs(d) == cache[d].subdirs

\* walkDir is called, up to the comparison with the cache, at time at.
WalkDir(d, callers, results, at) ==
  \/ /\ ~Exists(d)
     /\ stack' = callers /\ listed' = results
  \/ /\ Exists(d) /\ Cached(d)
     /\ stack' = <<Call(d, "hit", CachedSubdirs(d))>> \o callers
     /\ listed' = results \cup {e \in cache[d].files : PassesAge(e.mtime, at)}
  \/ /\ Exists(d) /\ ~Cached(d)
     /\ stack' = <<Call(d, "stat", {})>> \o callers
     /\ listed' = results

Top == Head(stack)

Discover ==
  /\ ~busy /\ busy' = TRUE
  /\ now' = clock
  /\ WalkDir(Root, << >>, {}, clock)
  /\ late' = {}
  /\ UNCHANGED <<clock, mtime, fresh, hidden, cache>>

ReadDir ==
  /\ stack # << >> /\ Top.step = "stat"
  /\ stack' = [stack EXCEPT ![1].step = "read",
       ![1].left = {x \in Nodes \ {Root} : In[x] = Top.dir /\ Exists(x)}]
  /\ fresh' = fresh \cup {Top.dir}
  /\ hidden' = {x \in hidden : In[x] # Top.dir}
  /\ UNCHANGED <<clock, mtime, late, busy, cache, now, listed>>

\* A subdirectory; after a miss it is noted for the cache.
Descend(d) ==
  /\ stack # << >> /\ d \in Top.left \cap Dirs
  /\ LET caller == [Top EXCEPT !.left = @ \ {d},
                               !.subdirs = IF Top.step = "read" THEN @ \cup {d} ELSE @]
     IN WalkDir(d, <<caller>> \o Tail(stack), listed, now)
  /\ UNCHANGED <<clock, mtime, seenVars, busy, cache, now>>

\* A file's own time is read after the directory was; it may be gone by then.
CollectFile(f) ==
  /\ stack # << >> /\ f \in Top.left \cap Files
  /\ LET found == IF Exists(f) THEN {[path |-> f, mtime |-> mtime[f]]} ELSE {}
     IN /\ stack' = [stack EXCEPT ![1].left = @ \ {f}, ![1].files = @ \cup found]
        /\ listed' = listed \cup {e \in found : PassesAge(e.mtime, now)}
  /\ UNCHANGED <<clock, mtime, seenVars, busy, cache, now>>

\* Mutant: the time that is cached is the directory's when its walk ends.
MutantSnapshotOf(frame) ==
  [mtime |-> mtime[frame.dir], files |-> frame.files, subdirs |-> frame.subdirs]

\* The time that is cached was read before the directory was.
SnapshotOf(frame) ==
  [mtime |-> frame.mtime, files |-> frame.files, subdirs |-> frame.subdirs]

\* walkDir returns; after a miss it stores the listing.
Return ==
  /\ stack # << >> /\ Top.step # "stat" /\ Top.left = {}
  /\ cache' = IF Top.step = "read" THEN [cache EXCEPT ![Top.dir] = SnapshotOf(Top)] ELSE cache
  /\ stack' = Tail(stack)
  /\ UNCHANGED <<clock, mtime, seenVars, busy, now, listed>>

\* The poll ends without a result.
Abandon ==
  /\ stack' = << >> /\ listed' = {}
  /\ busy' = FALSE /\ now' = Absent /\ late' = {}
  /\ UNCHANGED <<clock, mtime, fresh, hidden, cache>>

\* The context is cancelled, which is noticed before each entry of a directory;
\* nothing is stored on the way out.  Callers give up only before the end of the
\* modelled time.
Cancelled ==
  /\ stack # << >> /\ Top.left # {} /\ clock < MaxTime
  /\ Abandon

Walk ==
  \/ Discover \/ ReadDir \/ Return
  \/ \E x \in Nodes : Descend(x) \/ CollectFile(x)

-----------------------------------------------------------------------------
(* What a walk guarantees *)

WatchTypeOK ==
  /\ clock \in 1 .. MaxTime /\ now \in 0 .. clock
  /\ mtime \in [Nodes -> Gone .. clock] /\ cache \in [Dirs -> Snapshot]
  /\ fresh \subseteq Dirs /\ hidden \cup late \subseteq Nodes
  /\ busy \in BOOLEAN
  /\ stack \in Seq(Frame) /\ listed \subseteq Entry

\* A node and all directories above it, up to the root: what every set has that
\* has the node, and the directory of each of its elements.
Path(x) ==
  {y \in Nodes : \A S \in SUBSET Nodes :
     (x \in S /\ \A z \in S \ {Root} : In[z] \in S) => y \in S}

\* The listing remembers a time of file f that is too old at time at, from when
\* the directory was last read.
Aged(f, at) == \E e \in cache[In[f]].files : e.path = f /\ ~PassesAge(e.mtime, at)

WalkDone == busy /\ stack = << >>

\* When a walk ends, a file within the window is missing from the results only
\* because the cached listing holds an older time of it, or because it, or a
\* directory above it, was created too late to be seen; the cache hides nothing else (filewatch.go:155-171).
OmissionsExplained ==
  WalkDone => \A f \in Files :
    \/ ~Exists(f) \/ ~PassesAge(mtime[f], now)
    \/ \E e \in listed : e.path = f
    \/ Aged(f, now) \/ Path(f) \cap (hidden \cup late) # {}

\* filewatch.go:38-39: "WithMaxAge limits discovery to files whose modification
\* time is within d of the current time."  So a file that was last modified
\* before the walk began, within the window, is found.
WindowHonoured ==
  WalkDone => \A f \in Files :
    \/ ~Exists(f) \/ mtime[f] >= now \/ ~PassesAge(mtime[f], now)
    \/ \E e \in listed : e.path = f
    \/ Path(f) \cap (hidden \cup late) # {}

=============================================================================
