------------------------------- MODULE Monitor -------------------------------
(***************************************************************************)
(* The orchestrator of agentwatch, monitor/monitor.go: PollOnce asks every *)
(* source for its sessions, parses what is new in each of them, commits    *)
(* the result to the store under the mutex, sweeps the store, and then     *)
(* delivers to the sink the events it collected on the way.                *)
(*                                                                         *)
(* An action is one step of PollOnce between two points where another      *)
(* goroutine can be seen: one critical section of m.mu, one call into a    *)
(* source, one call into the sink.  The clock is read just before a        *)
(* critical section in the code and inside the same action here.           *)
(*                                                                         *)
(* Times are ages: how many ticks ago.  The code only ever compares the    *)
(* distance of two times with a threshold, so an age above every threshold *)
(* is kept at AgeCap, and the clock itself needs no bound.                 *)
(***************************************************************************)
EXTENDS Integers, SequencesExt

CONSTANTS
  Pollers,         \* goroutines that call PollOnce
  Runners,         \* the pollers that do it from Run, with one ctx for ever
  NumSources,      \* number of configured sources, asked in order
  Sessions,        \* session IDs
  Handles,         \* <<i, s>>: source i may report session s
  Slugs, NoSlug,   \* sub-agent slugs, and the empty one
  SlugOf,          \* the slug a session's own records carry
  Kinds,           \* record kinds an agent writes (see Records)
  MaxLog,          \* bound on the records of each handle
  FaultKinds,      \* what may go wrong: "discover", "parse", "cancel"
  MaxFaults,       \* bound on how often it does
  StaleThreshold,  \* ticks without data after which a session is stale; 0: never
  Retention,       \* ticks a terminal session is kept
  HealthThreshold, \* failures that make a source degraded; twice as many: failed
  SeqWidth,        \* event numbers wrap at this width (2^64 in the code)
  SlowPolls,       \* whether the clock may tick while a poll is under way
  EndedAges        \* how long ago an agent may claim to have ended (EndedAt)

Sources == 1..NumSources

\* A record is a message, the mark that ends the session, news of a running
\* sub-agent, or news that the sub-agent with a given slug has completed.
Records == {"msg", "end", "spawn"} \cup Slugs

\* A tick count above which no comparison changes its outcome.
AgeCap == IF StaleThreshold + 1 > Retention THEN StaleThreshold + 1 ELSE Retention

Ages == 0..AgeCap

Never == -1   \* the zero time, and a nil CompletedAt

ASSUME ConfigAssumption ==
  /\ NumSources \in Nat \ {0}    \* New refuses an empty list of sources
  /\ Runners \subseteq Pollers
  /\ SeqWidth \in Nat \ {0}
  /\ StaleThreshold \in Nat /\ Retention \in Nat /\ HealthThreshold \in Nat
  /\ EndedAges \subseteq Ages /\ SlowPolls \in BOOLEAN

ASSUME DataAssumption ==
  /\ IsFiniteSet(Sessions)
  /\ Handles \subseteq Sources \X Sessions
  /\ NoSlug \notin Slugs
  /\ SlugOf \in [Sessions -> Slugs \cup {NoSlug}]
  /\ Kinds \subseteq Records
  /\ MaxLog \in [Handles -> Nat] /\ MaxFaults \in Nat

VARIABLES
  log,        \* what the agent of each handle has written so far
  faults,     \* faults left to happen
  store,      \* m.store: session ID -> SessionState
  cursors,    \* m.cursors: handle -> records already consumed
  removed,    \* m.removed: tombstones left by the retention sweep
  health,     \* m.health: per-source failure counts and status
  seq,        \* m.seq
  pc,         \* where each poller is in PollOnce
  ctx,        \* the context of each poller's call
  poll,       \* the local variables of each poller's call
  seen,       \* sink: the last lifecycle event delivered for each session
  replica,    \* sink: a copy of the store kept up to date from the deltas
  sinkHealth, \* sink: the last status delivered for each source
  base,       \* history: cursor of a handle when its session entered the store
  since,      \* history: age of the end that last made a session terminal
  lastEvent   \* history: type of the last lifecycle event collected for a session

envVars  == <<log, faults>>
coreVars == <<store, cursors, removed, health, base, since, lastEvent>>
sinkVars == <<seq, seen, replica, sinkHealth>>
vars     == <<envVars, coreVars, sinkVars, pc, ctx, poll>>

-----------------------------------------------------------------------------
(* Session states, updates and the events they give rise to *)

SessionState ==
  [life : {"", "active", "terminal"},   \* "" : the map has no such key
   done : Ages \cup {Never},            \* CompletedAt
   data : Ages \cup {Never},            \* LastDataReceivedAt
   msgs : Nat,                          \* MessageCount
   slug : Slugs \cup {NoSlug},
   subs : SUBSET Slugs]                 \* slugs of the terminal Subagents

\* What a lookup of an absent key returns.
Absent == [life |-> "", done |-> Never, data |-> Never,
           msgs |-> 0, slug |-> NoSlug, subs |-> {}]

Tracked(s) == store[s].life # ""
Active(s)  == store[s].life = "active"

\* What a consumer can tell of a session: the part of the state that deltas
\* and snapshots are compared on.
View(st) == [life |-> st.life, msgs |-> st.msgs]
Views    == [life : {"", "active", "terminal"}, msgs : Nat]
NoView   == View(Absent)

\* Monitor.Snapshot, as a function over all IDs (NoView: not in the slice).
Snapshot == [s \in Sessions |-> View(store[s])]

\* The fields of the SourceUpdate that Parse makes of a batch of records.
MutantUnclampedDelta(b) ==   \* mutant: a correction is taken off the count
  Cardinality({i \in DOMAIN b : b[i] = "msg"}) - Cardinality({i \in DOMAIN b : b[i] = "end"})
MessageCountDelta(b) == Cardinality({i \in DOMAIN b : b[i] = "msg"})
Terminal(b)          == \E i \in DOMAIN b : b[i] = "end"
HasLines(b)          == \E i \in DOMAIN b : b[i] # "end"
Subagents(b)         == {i \in DOMAIN b : b[i] \in Slugs \cup {"spawn"}}
CompletedIn(b)       == {b[i] : i \in {j \in DOMAIN b : b[j] \in Slugs}}

\* Mutant: the count of the update replaces the one accumulated so far.
MutantOverwriteCount(st, s, b) ==
  [st EXCEPT !.msgs = MessageCountDelta(b), !.data = 0]

\* Counts accumulate; a slug or a list of sub-agents replaces the old one
\* only if the update has one.
applyUpdate(st, s, b) ==
  [st EXCEPT !.msgs = @ + MessageCountDelta(b),
             !.data = 0,
             !.slug = IF HasLines(b) THEN SlugOf[s] ELSE @,
             !.subs = IF Subagents(b) # {} THEN CompletedIn(b) ELSE @]

\* Mutant: To is left at the value the first case gives it.
MutantAlwaysToActive(type, s, from, to) ==
  [type |-> type, id |-> s, from |-> from, to |-> "active"]

LifecycleEvent(type, s, from, to) ==
  [type |-> type, id |-> s, from |-> from, to |-> to]

LifecycleEvents ==
  [type : {"discovered", "updated", "resumed", "terminal", "stale", "removed"},
   id : Sessions, from : {"", "active", "terminal"}, to : {"", "active", "terminal"}]

NoEvent == [type |-> "none", id |-> "", from |-> "", to |-> ""]

Statuses == {"healthy", "degraded", "failed"}

computeStatus(total) ==
  IF total >= 2 * HealthThreshold THEN "failed"
  ELSE IF total >= HealthThreshold THEN "degraded" ELSE "healthy"

\* The record of a source with these failure counts, status recomputed.
SourceHealth(discover, parse) ==
  [discover |-> discover, parse |-> parse, status |-> computeStatus(discover + parse)]

\* Mutant: only a change for the worse is reported.
MutantReportFailuresOnly(i, new) ==
  IF new.status \in {health[i].status, "healthy"} THEN << >>
  ELSE << [source |-> i, status |-> new.status] >>

\* recordHealthFailure and recordHealthSuccess report only a change of status.
HealthEvents(i, new) ==
  IF new.status = health[i].status THEN << >>
  ELSE << [source |-> i, status |-> new.status] >>

NoHandle == << >>

\* The locals of PollOnce at its first line.
NewPoll ==
  [src   |-> 1,                           \* i: the source it is at
   todo  |-> {},                          \* handles still to be parsed
   h     |-> NoHandle,                    \* the handle it is at
   cur   |-> 0,                           \* the cursor read for it
   batch |-> << >>,                       \* what Parse made of it
   fails |-> 0,                           \* parseFailCount
   lcs   |-> << >>,                       \* lifecycles
   upd   |-> [s \in Sessions |-> NoView], \* updates, the last one of each ID
   rem   |-> {},                          \* removedIDs
   hev   |-> << >>]                       \* healthEvents

Init ==
  /\ log = [h \in Handles |-> << >>]
  /\ faults = MaxFaults
  /\ store = [s \in Sessions |-> Absent]
  /\ cursors = [h \in Handles |-> 0]
  /\ removed = {}
  /\ health = [i \in Sources |-> [discover |-> 0, parse |-> 0, status |-> "healthy"]]
  /\ seq = 0
  /\ pc = [p \in Pollers |-> "idle"]
  /\ ctx = [p \in Pollers |-> "live"]
  /\ poll = [p \in Pollers |-> NewPoll]
  /\ seen = [s \in Sessions |-> NoEvent]
  /\ replica = [s \in Sessions |-> NoView]
  /\ sinkHealth = [i \in Sources |-> "healthy"]
  /\ base = [h \in Handles |-> 0]
  /\ since = [s \in Sessions |-> 0]
  /\ lastEvent = [s \in Sessions |-> "none"]

-----------------------------------------------------------------------------
(* The environment: agents, the clock, the callers' contexts *)

\* An agent appends a record to its session's log.
Write(h, k) ==
  /\ Len(log[h]) < MaxLog[h]
  /\ log' = [log EXCEPT ![h] = Append(@, k)]
  /\ UNCHANGED <<faults, coreVars, sinkVars, pc, ctx, poll>>

\* No call of PollOnce is under way.
Quiet == \A p \in Pollers : pc[p] \in {"idle", "stopped"}

Older(t) == IF t \in {Never, AgeCap} THEN t ELSE t + 1

Tick ==
  /\ SlowPolls \/ Quiet
  /\ store' = [s \in Sessions |->
                 [store[s] EXCEPT !.done = Older(@), !.data = Older(@)]]
  /\ since' = [s \in Sessions |->
                 IF store[s].life = "terminal" THEN Older(since[s]) ELSE since[s]]
  /\ UNCHANGED <<envVars, cursors, removed, health, base, lastEvent,
                 sinkVars, pc, ctx, poll>>

CanFail(kind) == kind \in FaultKinds /\ faults > 0

Cancel(p) ==
  /\ CanFail("cancel")
  /\ ctx[p] = "live"
  /\ pc[p] # "stopped"
  /\ ctx' = [ctx EXCEPT ![p] = "cancelled"]
  /\ faults' = faults - 1
  /\ UNCHANGED <<log, coreVars, sinkVars, pc, poll>>

-----------------------------------------------------------------------------
(* PollOnce: the loop over sources and their handles *)

\* The poller goes on at label l; its locals become l.
Goto(p, l)      == pc' = [pc EXCEPT ![p] = l]
SetLocals(p, l) == poll' = [poll EXCEPT ![p] = l]

Begin(p) ==
  /\ pc[p] = "idle"
  /\ Goto(p, "source")
  /\ UNCHANGED <<envVars, coreVars, sinkVars, ctx, poll>>

\* The other branch of the select in Run.
RunDone(p) ==
  /\ p \in Runners
  /\ pc[p] = "idle"
  /\ ctx[p] = "cancelled"
  /\ Goto(p, "stopped")
  /\ UNCHANGED <<envVars, coreVars, sinkVars, ctx, poll>>

AtSource(p) == pc[p] = "source" /\ poll[p].src <= NumSources
AtHandle(p) == pc[p] = "handles" /\ poll[p].todo # {}

\* return err: everything collected so far is dropped.  Run returns too; any
\* other caller may come back with a context of its own.
ReturnErr(p) ==
  /\ AtSource(p) \/ AtHandle(p)
  /\ ctx[p] = "cancelled"
  /\ SetLocals(p, NewPoll)
  /\ IF p \in Runners
       THEN Goto(p, "stopped") /\ UNCHANGED ctx
       ELSE Goto(p, "idle") /\ ctx' = [ctx EXCEPT ![p] = "live"]
  /\ UNCHANGED <<envVars, coreVars, sinkVars>>

\* Mutant: every round asks the first source.
MutantDiscoverFirst(p) ==
  /\ AtSource(p)
  /\ ctx[p] = "live"
  /\ SetLocals(p, [poll[p] EXCEPT
       !.todo = {h \in Handles : h[1] = 1 /\ log[h] # << >>}, !.fails = 0])
  /\ Goto(p, "handles")
  /\ UNCHANGED <<envVars, coreVars, sinkVars, ctx>>

Discover(p) ==
  /\ AtSource(p)
  /\ ctx[p] = "live"
  /\ SetLocals(p, [poll[p] EXCEPT
       !.todo = {h \in Handles : h[1] = poll[p].src /\ log[h] # << >>}, !.fails = 0])
  /\ Goto(p, "handles")
  /\ UNCHANGED <<envVars, coreVars, sinkVars, ctx>>

\* Record new as the health of source i, and go on with the next source.
RecordHealth(p, i, new) ==
  /\ health' = [health EXCEPT ![i] = new]
  /\ SetLocals(p, [poll[p] EXCEPT !.src = @ + 1, !.hev = @ \o HealthEvents(i, new)])
  /\ Goto(p, "source")
  /\ UNCHANGED <<log, store, cursors, removed, base, since, lastEvent, sinkVars, ctx>>

\* A Discover that finds its context cancelled right after the check of the loop
\* is a Discover that fails and a Cancel.
DiscoverFails(p) ==
  /\ AtSource(p)
  /\ ctx[p] = "live"
  /\ CanFail("discover")
  /\ faults' = faults - 1
  /\ LET i == poll[p].src
     IN  RecordHealth(p, i, SourceHealth(health[i].discover + 1, health[i].parse))

ReadCursor(p) ==
  /\ AtHandle(p)
  /\ ctx[p] = "live"
  /\ \E h \in poll[p].todo :
       SetLocals(p, [poll[p] EXCEPT !.todo = @ \ {h}, !.h = h, !.cur = cursors[h]])
  /\ Goto(p, "parse")
  /\ UNCHANGED <<envVars, coreVars, sinkVars, ctx>>

\* Parse runs outside the lock and reads to the end of what is written.
Unread(p) == SubSeq(log[poll[p].h], poll[p].cur + 1, Len(log[poll[p].h]))

\* Mutant: a zero SourceUpdate is committed like any other.
MutantCommitNothing(p) ==
  /\ pc[p] = "parse"
  /\ SetLocals(p, [poll[p] EXCEPT !.batch = Unread(p)])
  /\ Goto(p, "commit")
  /\ UNCHANGED <<envVars, coreVars, sinkVars, ctx>>

Parse(p) ==
  /\ pc[p] = "parse"
  /\ Unread(p) # << >>
  /\ SetLocals(p, [poll[p] EXCEPT !.batch = Unread(p)])
  /\ Goto(p, "commit")
  /\ UNCHANGED <<envVars, coreVars, sinkVars, ctx>>

\* The locals of the handle go out of scope.
Forget(l) == [l EXCEPT !.h = NoHandle, !.cur = 0, !.batch = << >>]

\* A zero SourceUpdate: no commit, the cursor is not stored.
ParseNothing(p) ==
  /\ pc[p] = "parse"
  /\ Unread(p) = << >>
  /\ SetLocals(p, Forget(poll[p]))
  /\ Goto(p, "handles")
  /\ UNCHANGED <<envVars, coreVars, sinkVars, ctx>>

\* Parse also fails when the context was cancelled after the check.
ParseFails(p) ==
  /\ pc[p] = "parse"
  /\ \/ CanFail("parse") /\ faults' = faults - 1
     \/ ctx[p] = "cancelled" /\ UNCHANGED faults
  /\ SetLocals(p, [Forget(poll[p]) EXCEPT !.fails = @ + 1])
  /\ Goto(p, "handles")
  /\ UNCHANGED <<log, coreVars, sinkVars, ctx>>

\* The critical section that commits a batch: store st under the ID of the
\* handle, advance the cursor, collect the state and the event.
Commit(p, st, type, from) ==
  LET h == poll[p].h
      s == h[2]
  IN  /\ store' = [store EXCEPT ![s] = st]
      /\ cursors' = [cursors EXCEPT ![h] = poll[p].cur + Len(poll[p].batch)]
      /\ SetLocals(p, [Forget(poll[p]) EXCEPT
           !.upd[s] = View(st),
           !.lcs = Append(@, LifecycleEvent(type, s, from, st.life))])
      /\ lastEvent' = [lastEvent EXCEPT ![s] = type]
      /\ Goto(p, "handles")
      /\ UNCHANGED <<envVars, health, sinkVars, ctx>>

\* The session of the batch, and what the store has for it.
SessionAt(p) == poll[p].h[2]
Existing(p)  == store[SessionAt(p)]
Applied(p, st) == applyUpdate(st, SessionAt(p), poll[p].batch)
Finds(p, life) == pc[p] = "commit" /\ Existing(p).life = life

\* Mutant: the tombstone is not looked at.
MutantForgetTombstone(p) ==
  /\ Finds(p, "")
  /\ Commit(p, Applied(p, [Absent EXCEPT !.life = "active"]), "discovered", "")
  /\ removed' = removed \ {SessionAt(p)}
  /\ base' = [h \in Handles |->
                IF h = poll[p].h THEN poll[p].cur
                ELSE IF h[2] = SessionAt(p) THEN cursors[h] ELSE base[h]]
  /\ UNCHANGED since

\* case !existed: a new session, or one the retention sweep had removed.
\* update.Terminal is not looked at.
CommitNew(p) ==
  /\ Finds(p, "")
  /\ IF SessionAt(p) \in removed
       THEN Commit(p, Applied(p, [Absent EXCEPT !.life = "active"]), "resumed", "terminal")
       ELSE Commit(p, Applied(p, [Absent EXCEPT !.life = "active"]), "discovered", "")
  /\ removed' = removed \ {SessionAt(p)}
  /\ base' = [h \in Handles |->
                IF h = poll[p].h THEN poll[p].cur
                ELSE IF h[2] = SessionAt(p) THEN cursors[h] ELSE base[h]]
  /\ UNCHANGED since

\* Mutant: CompletedAt survives the resumption.
MutantKeepCompletedAt(p) ==
  /\ Finds(p, "terminal")
  /\ Commit(p, [Applied(p, Existing(p)) EXCEPT !.life = "active"], "resumed", "terminal")
  /\ UNCHANGED <<removed, base, since>>

\* case existing terminal: any update brings it back, a terminal one too.
CommitResumed(p) ==
  /\ Finds(p, "terminal")
  /\ Commit(p, [Applied(p, Existing(p)) EXCEPT !.life = "active", !.done = Never],
            "resumed", "terminal")
  /\ UNCHANGED <<removed, base, since>>

\* case update.Terminal: CompletedAt is the source's EndedAt, or now.
CommitTerminal(p) ==
  /\ Finds(p, "active")
  /\ Terminal(poll[p].batch)
  /\ \E age \in EndedAges \cup {0} :
       /\ Commit(p, [Applied(p, Existing(p)) EXCEPT !.life = "terminal", !.done = age],
                 "terminal", "active")
       /\ since' = [since EXCEPT ![SessionAt(p)] = age]
  /\ UNCHANGED <<removed, base>>

CommitUpdated(p) ==
  /\ Finds(p, "active")
  /\ ~Terminal(poll[p].batch)
  /\ Commit(p, Applied(p, Existing(p)), "updated", "active")
  /\ UNCHANGED <<removed, base, since>>

\* Mutant: a clean pass does not reset the failure counts.
MutantNoHealthReset(p) ==
  /\ pc[p] = "handles"
  /\ poll[p].todo = {}
  /\ LET i == poll[p].src
     IN  RecordHealth(p, i,
           SourceHealth(health[i].discover, health[i].parse + poll[p].fails))
  /\ UNCHANGED faults

\* After the last handle: a clean pass resets the failure counts.
FinishSource(p) ==
  /\ pc[p] = "handles"
  /\ poll[p].todo = {}
  /\ LET i == poll[p].src
     IN  RecordHealth(p, i,
           IF poll[p].fails > 0
             THEN SourceHealth(health[i].discover, health[i].parse + poll[p].fails)
             ELSE SourceHealth(0, 0))
  /\ UNCHANGED faults

-----------------------------------------------------------------------------
(* PollOnce: the three sweeps, one critical section each *)

\* Move the sessions in S to terminal, in the order of the map iteration.
Terminate(p, S, type) ==
  /\ store' = [s \in Sessions |->
                 IF s \in S THEN [store[s] EXCEPT !.life = "terminal", !.done = 0]
                 ELSE store[s]]
  /\ \E order \in SetToSeqs(S) :
       SetLocals(p, [poll[p] EXCEPT
         !.upd = [s \in Sessions |->
                    IF s \in S THEN [View(store[s]) EXCEPT !.life = "terminal"]
                    ELSE @[s]],
         !.lcs = @ \o [i \in DOMAIN order |->
                    LifecycleEvent(type, order[i], "active", "terminal")]])
  /\ since' = [s \in Sessions |-> IF s \in S THEN 0 ELSE since[s]]
  /\ lastEvent' = [s \in Sessions |-> IF s \in S THEN type ELSE lastEvent[s]]
  /\ UNCHANGED <<envVars, cursors, removed, health, base, sinkVars, ctx>>

StaleSessions ==
  {s \in Sessions : Active(s) /\ StaleThreshold > 0 /\ store[s].data > StaleThreshold}

StaleSweep(p) ==
  /\ pc[p] = "source"
  /\ poll[p].src > NumSources
  /\ Terminate(p, StaleSessions, "stale")
  /\ Goto(p, "subagents")

\* Mutant: the sub-agents of a session that has ended are not looked at.
MutantActiveParentsOnly == UNION {store[s].subs : s \in {t \in Sessions : Active(t)}}

\* Slugs that some session in the store, whatever its state, reports completed.
CompletedSlugs == UNION {store[s].subs : s \in Sessions}

CompletedChildren == {s \in Sessions : Active(s) /\ store[s].slug \in CompletedSlugs}

SubagentSweep(p) ==
  /\ pc[p] = "subagents"
  /\ Terminate(p, CompletedChildren, "terminal")
  /\ Goto(p, "retention")

\* Mutants: the age is taken from the last data; it must hit Retention exactly.
MutantExpiredSinceData ==
  {s \in Sessions : store[s].life = "terminal" /\ store[s].data >= Retention}
MutantExpiredExactly ==
  {s \in Sessions : store[s].life = "terminal" /\ store[s].done = Retention}

ExpiredSessions ==
  {s \in Sessions : /\ store[s].life = "terminal"
                    /\ store[s].done # Never
                    /\ store[s].done >= Retention}

RetentionSweep(p) ==
  LET S == ExpiredSessions
  IN  /\ pc[p] = "retention"
      /\ store' = [s \in Sessions |-> IF s \in S THEN Absent ELSE store[s]]
      /\ removed' = removed \cup S
      /\ \E order \in SetToSeqs(S) :
           SetLocals(p, [poll[p] EXCEPT
             !.rem = S,
             !.lcs = @ \o [i \in DOMAIN order |->
                        LifecycleEvent("removed", order[i], "terminal", "")]])
      /\ lastEvent' = [s \in Sessions |-> IF s \in S THEN "removed" ELSE lastEvent[s]]
      /\ Goto(p, "emit")
      /\ UNCHANGED <<envVars, cursors, health, base, since, sinkVars, ctx>>

-----------------------------------------------------------------------------
(* PollOnce: delivery, outside the lock: lifecycle events, one delta, health *)

\* emitEvent: one number of the sequence, one call of HandleEvent.
Emit(p) == pc[p] = "emit" /\ seq' = (seq + 1) % SeqWidth /\ UNCHANGED <<envVars, coreVars, pc, ctx>>

EmitLifecycle(p) ==
  LET e == Head(poll[p].lcs)
  IN  /\ poll[p].lcs # << >>
      /\ Emit(p)
      /\ seen' = [seen EXCEPT ![e.id] = e]
      /\ SetLocals(p, [poll[p] EXCEPT !.lcs = Tail(@)])
      /\ UNCHANGED <<replica, sinkHealth>>

Updates(p) == {s \in Sessions : poll[p].upd[s] # NoView}
MutantNoDeltaForRemoved(p) == Updates(p) # {}   \* mutant
HasDelta(p) == Updates(p) # {} \/ poll[p].rem # {}

\* A consumer applies Updates, then Removed.
EmitDelta(p) ==
  /\ poll[p].lcs = << >>
  /\ HasDelta(p)
  /\ Emit(p)
  /\ replica' = [s \in Sessions |->
                   IF s \in poll[p].rem THEN NoView
                   ELSE IF s \in Updates(p) THEN poll[p].upd[s] ELSE replica[s]]
  /\ SetLocals(p, [poll[p] EXCEPT !.upd = NewPoll.upd, !.rem = {}])
  /\ UNCHANGED <<seen, sinkHealth>>

EmitHealth(p) ==
  LET e == Head(poll[p].hev)
  IN  /\ poll[p].lcs = << >> /\ ~HasDelta(p) /\ poll[p].hev # << >>
      /\ Emit(p)
      /\ sinkHealth' = [sinkHealth EXCEPT ![e.source] = e.status]
      /\ SetLocals(p, [poll[p] EXCEPT !.hev = Tail(@)])
      /\ UNCHANGED <<seen, replica>>

\* return nil
Return(p) ==
  /\ pc[p] = "emit"
  /\ poll[p].lcs = << >> /\ ~HasDelta(p) /\ poll[p].hev = << >>
  /\ SetLocals(p, NewPoll)
  /\ Goto(p, "idle")
  /\ ctx' = IF p \in Runners THEN ctx ELSE [ctx EXCEPT ![p] = "live"]
  /\ UNCHANGED <<envVars, coreVars, sinkVars>>

-----------------------------------------------------------------------------
PollLoop(p) ==
  \/ Begin(p) \/ RunDone(p) \/ ReturnErr(p) \/ Discover(p) \/ DiscoverFails(p)
  \/ ReadCursor(p) \/ Parse(p) \/ ParseNothing(p) \/ ParseFails(p)
  \/ CommitNew(p) \/ CommitResumed(p) \/ CommitTerminal(p) \/ CommitUpdated(p)
  \/ FinishSource(p)

SweepAndEmit(p) ==
  \/ StaleSweep(p) \/ SubagentSweep(p) \/ RetentionSweep(p)
  \/ EmitLifecycle(p) \/ EmitDelta(p) \/ EmitHealth(p) \/ Return(p)

Poller(p) == PollLoop(p) \/ SweepAndEmit(p)

Agent == \E h \in Handles, k \in Kinds : Write(h, k)

Next == Agent \/ Tick \/ \E p \in Pollers : Cancel(p) \/ Poller(p)

Spec == Init /\ [][Next]_vars

\* The clock does not stop (not even for ever between two polls that are too
\* short to see it tick), and a goroutine that can run does: the ticker of Run
\* fires again and again, a call into a source or a sink returns.
Fairness == SF_vars(Tick) /\ \A p \in Pollers : WF_vars(Poller(p))

FairSpec == Spec /\ Fairness

-----------------------------------------------------------------------------
(* Properties *)

Poll ==
  [src : 1..NumSources + 1, todo : SUBSET Handles, h : Handles \cup {NoHandle},
   cur : Nat, batch : Seq(Records), fails : Nat, lcs : Seq(LifecycleEvents),
   upd : [Sessions -> Views], rem : SUBSET Sessions,
   hev : Seq([source : Sources, status : Statuses])]

Labels == {"idle", "source", "handles", "parse", "commit",
           "subagents", "retention", "emit", "stopped"}

\* Every variable has the shape its declaration says.
TypeOK ==
  /\ log \in [Handles -> Seq(Records)]
  /\ faults \in 0..MaxFaults
  /\ store \in [Sessions -> SessionState]
  /\ cursors \in [Handles -> Nat]
  /\ removed \in SUBSET Sessions
  /\ health \in [Sources -> [discover : Nat, parse : Nat, status : Statuses]]
  /\ seq \in 0..SeqWidth - 1
  /\ pc \in [Pollers -> Labels]
  /\ ctx \in [Pollers -> {"live", "cancelled"}]
  /\ poll \in [Pollers -> Poll]
  /\ seen \in [Sessions -> LifecycleEvents \cup {NoEvent}]
  /\ replica \in [Sessions -> Views]
  /\ sinkHealth \in [Sources -> Statuses]
  /\ base \in [Handles -> Nat]
  /\ since \in [Sessions -> Ages]
  /\ lastEvent \in [Sessions -> {"none"} \cup
       {"discovered", "updated", "resumed", "terminal", "stale", "removed"}]

\* The locals a step relies on are in scope where it is taken.
LocalsInScope ==
  \A p \in Pollers :
    /\ pc[p] \in {"handles", "parse", "commit"} => poll[p].src \in Sources
    /\ pc[p] \in {"parse", "commit"} => poll[p].h \in Handles

\* The store never contradicts itself, however many goroutines poll: a session
\* has a completion time exactly while it is terminal (monitor.go:157-170, the
\* sweeps at 219 and 269), a tombstone exactly while it is gone (147-148,
\* 303-304), and whoever is tracked has received data at some time.
CompletedIffTerminal ==
  \A s \in Sessions : (store[s].done # Never) <=> (store[s].life = "terminal")

TombstoneIsGone == \A s \in removed : store[s] = Absent

TrackedHasData ==
  \A s \in Sessions : IF Tracked(s) THEN store[s].data # Never ELSE store[s] = Absent

StoreConsistent == CompletedIffTerminal /\ TombstoneIsGone /\ TrackedHasData

\* What a session does in the store is what SessionLifecycle allows, and the
\* event collected for each of its moves is the one of that move.
StateOf(s) ==
  IF Tracked(s) THEN store[s].life
  ELSE IF s \in removed THEN "removed" ELSE "untracked"

Committed == INSTANCE SessionLifecycle
               WITH state <- [s \in Sessions |-> StateOf(s)], event <- lastEvent

StoreFollowsLifecycle == Committed!Spec

\* What the sink is told of a session is such a history as well: no event is
\* lost, repeated or delivered before an earlier one (one caller at a time,
\* no call abandoned).
ToldState(e) ==
  CASE e.type = "none"    -> "untracked"
    [] e.type = "removed" -> "removed"
    [] OTHER              -> e.to

Delivered == INSTANCE SessionLifecycle
               WITH state <- [s \in Sessions |-> ToldState(seen[s])],
                    event <- [s \in Sessions |-> seen[s].type]

SinkFollowsLifecycle == Delivered!Spec

\* Between two polls a consumer that only applies the deltas (Updates, then
\* Removed) holds what Snapshot would return.
ReplicaMirrorsStore == Quiet => replica = Snapshot

\* Between two polls the last event of each session says the state it is in.
ToldTheTruth == Quiet => \A s \in Sessions : ToldState(seen[s]) = StateOf(s)

\* Between two polls the last health event of a source says its status: no change,
\* for the worse or the better, goes unreported (monitor.go:416-445).
HealthMirrored == Quiet => \A i \in Sources : sinkHealth[i] = health[i].status

\* A session's message count is the number of messages between the cursors at
\* which it entered the store and the current ones: failed and empty parses,
\* terminations, resumptions and a second source with the same ID neither lose
\* nor repeat a record.
MessagesIn(h) ==
  MessageCountDelta(SubSeq(log[h], base[h] + 1, cursors[h]))

CountsMatchCursors ==
  \A s \in Sessions : Tracked(s) =>
    store[s].msgs =
      SumFunction([h \in {g \in Handles : g[2] = s} |-> MessagesIn(h)])

\* A session that ended, or was removed, comes back only in a step that
\* consumes records nobody had consumed: a sweep, an error or an empty parse
\* never resurrects it.
OnlyNewDataResumes ==
  [][\A s \in Sessions :
       StateOf(s) \in {"terminal", "removed"} /\ StateOf(s)' = "active"
         => \E h \in Handles : h[2] = s /\ cursors'[h] > cursors[h]]_vars

\* Once the sweeps are done no session is left active that a session in the
\* store reports as a completed sub-agent (monitor.go:240-289).
NoOrphanedSubagent ==
  (\E p \in Pollers : pc[p] \in {"retention", "emit"}) =>
    \A child, parent \in Sessions :
      store[child].slug \in store[parent].subs => ~Active(child)

\* A terminal session leaves the store in the first retention sweep that finds it
\* Retention ticks or more after its end, and in no other step: the end that last
\* made it terminal, dated by its source or found by a sweep, and not an end it
\* has come back from (monitor.go:166-170, 220-221, 270-271, 297-304).
RemovedOnTime ==
  [][\A s \in Sessions : store[s].life = "terminal" =>
       (store'[s].life = "" <=> /\ \E p \in Pollers : pc[p] = "retention" /\ pc'[p] = "emit"
                                /\ since[s] >= Retention)]_vars

\* An update with Terminal set leaves the session terminal, as
\* docs/source-implementation.md:140 tells authors of sources.
TerminalUpdateEnds ==
  [][\A p \in Pollers :
       pc[p] = "commit" /\ pc'[p] = "handles" /\ Terminal(poll[p].batch)
         => store'[SessionAt(p)].life = "terminal"]_vars

\* What an agent wrote is eventually consumed, whatever fails on the way, as
\* long as failures stop.
EverythingIsConsumed ==
  \A h \in Handles : (Len(log[h]) > cursors[h]) ~> (Len(log[h]) = cursors[h])

\* A session that falls silent leaves the store: it becomes terminal or stale,
\* and its retention expires.
SilentSessionLeaves == \A s \in Sessions : Tracked(s) ~> ~Tracked(s)

\* A source that stops failing is reported healthy again.
HealthRecovers ==
  \A i \in Sources : (sinkHealth[i] # "healthy") ~> (sinkHealth[i] = "healthy")
=============================================================================
