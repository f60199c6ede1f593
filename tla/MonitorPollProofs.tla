-------------------------- MODULE MonitorPollProofs --------------------------
(***************************************************************************)
(* More proofs about module Monitor.  How long a terminal session is kept, *)
(* for any number of callers; and what holds when a single goroutine calls *)
(* PollOnce, as Run does: that only new data brings a session back, that   *)
(* no sub-agent is left behind, that every record is counted once, and,    *)
(* when no call is abandoned, that the sink is told exactly what happened  *)
(* to the store.                                                           *)
(***************************************************************************)
EXTENDS MonitorProofs, SequenceCounts

-----------------------------------------------------------------------------
(* Retention *)

\* The completion time of a terminal session is that of the end which made it so.
DoneSince == \A s \in Sessions : store[s].life = "terminal" => store[s].done = since[s]

LEMMA BystanderSince ==
  ASSUME (\E p \in Pollers : Bystander(p)) \/ Agent \/ (\E p \in Pollers : Cancel(p))
         \/ UNCHANGED vars
  PROVE  UNCHANGED <<store, since>>
BY DEF Bystander, Begin, RunDone, ReturnErr, Discover, DiscoverFails, ReadCursor, Parse,
       ParseNothing, ParseFails, FinishSource, EmitLifecycle, EmitDelta, EmitHealth, Return,
       RecordHealth, Emit, coreVars, Agent, Write, Cancel, vars

LEMMA DoneInit == Init => DoneSince
BY StoreInit, AbsentFields DEF DoneSince

LEMMA DoneStep ==
  ASSUME TypeInv, DoneSince, [Next]_vars
  PROVE  DoneSince'
<1> SUFFICES ASSUME NEW s \in Sessions, store'[s].life = "terminal"
             PROVE  store'[s].done = since'[s]
  BY DEF DoneSince
<1>1. /\ store \in [Sessions -> SessionState] /\ since \in [Sessions -> Ages]
      /\ store[s] \in SessionState
      /\ store[s].life = "terminal" => store[s].done = since[s]
  BY DEF TypeInv, TypeOK, DoneSince
<1>2. CASE UNCHANGED <<store, since>>
  BY <1>1, <1>2
<1>3. CASE Tick
  <2>1. store'[s] = [store[s] EXCEPT !.done = Older(store[s].done), !.data = Older(store[s].data)]
    BY <1>3, Zenon DEF Tick
  <2>2. store'[s].done = Older(store[s].done) /\ store'[s].life = store[s].life
    BY <1>1, <2>1 DEF SessionState
  <2>3. since'[s] = Older(since[s])
    BY <1>3, <2>2, Zenon DEF Tick
  <2> QED
    BY <1>1, <2>2, <2>3
<1>4. ASSUME NEW p \in Pollers,
             CommitNew(p) \/ CommitResumed(p) \/ CommitTerminal(p) \/ CommitUpdated(p)
      PROVE  store'[s].done = since'[s]
  <2>1. PICK st \in SessionState, type \in {"discovered", "updated", "resumed", "terminal"} :
          store' = [store EXCEPT ![SessionAt(p)] = st] /\ CommitOf(p, st, type)
    BY <1>4, CommitStores, Zenon
  <2>2. CASE s # SessionAt(p)
    BY <1>1, <2>1, <2>2 DEF CommitOf
  <2>3. CASE s = SessionAt(p)
    <3>1. store'[s] = st /\ store[s] = Existing(p)
      BY <1>1, <2>1, <2>3 DEF Existing
    <3> QED
      BY <1>1, <2>1, <2>3, <3>1 DEF CommitOf
  <2> QED
    BY <2>2, <2>3
<1>5. ASSUME NEW p \in Pollers, NEW S \in SUBSET Sessions, NEW type, Terminate(p, S, type)
      PROVE  store'[s].done = since'[s]
  <2>1. /\ store'[s] = IF s \in S THEN [store[s] EXCEPT !.life = "terminal", !.done = 0] ELSE store[s]
        /\ since'[s] = IF s \in S THEN 0 ELSE since[s]
    BY <1>5, Zenon DEF Terminate
  <2> QED
    BY <1>1, <2>1 DEF SessionState
<1>6. ASSUME NEW p \in Pollers, RetentionSweep(p)
      PROVE  store'[s].done = since'[s]
  <2>1. store'[s] = (IF s \in ExpiredSessions THEN Absent ELSE store[s]) /\ since' = since
    BY <1>6 DEF RetentionSweep
  <2> QED
    BY <1>1, <2>1, AbsentFields
<1>7. StaleSessions \in SUBSET Sessions /\ CompletedChildren \in SUBSET Sessions
  BY DEF StaleSessions, CompletedChildren
<1>8. ASSUME NEW p \in Pollers, StaleSweep(p) \/ SubagentSweep(p)
      PROVE  store'[s].done = since'[s]
  BY <1>5, <1>7, <1>8 DEF StaleSweep, SubagentSweep
<1> QED
  BY <1>2, <1>3, <1>4, <1>6, <1>8, BystanderSince
     DEF Next, Poller, PollLoop, SweepAndEmit, Bystander

\* A terminal session leaves the store in a retention sweep that finds it expired,
\* and in no other step.
LEMMA RemovedExpired ==
  ASSUME TypeInv, [Next]_vars, NEW s \in Sessions,
         store[s].life = "terminal", store'[s].life = ""
  PROVE  store[s].done >= Retention /\ \E p \in Pollers : pc[p] = "retention" /\ pc'[p] = "emit"
<1>1. store \in [Sessions -> SessionState] /\ store[s] \in SessionState /\ pc \in [Pollers -> Labels]
  BY DEF TypeInv, TypeOK
<1>2. store' # store
  OBVIOUS
<1>3. CASE Tick
  BY <1>3, TickAges
<1>4. ASSUME NEW p \in Pollers,
             CommitNew(p) \/ CommitResumed(p) \/ CommitTerminal(p) \/ CommitUpdated(p)
      PROVE  FALSE
  <2>1. PICK st \in SessionState, type \in {"discovered", "updated", "resumed", "terminal"} :
          store' = [store EXCEPT ![SessionAt(p)] = st] /\ CommitOf(p, st, type)
    BY <1>4, CommitStores, Zenon
  <2>2. st.life # ""
    BY <2>1 DEF CommitOf
  <2> QED
    BY <1>1, <2>1, <2>2
<1>5. ASSUME NEW p \in Pollers, StaleSweep(p) \/ SubagentSweep(p)
      PROVE  FALSE
  <2>1. PICK S \in SUBSET Sessions :
          store' = [t \in Sessions |->
            IF t \in S THEN [store[t] EXCEPT !.life = "terminal", !.done = 0] ELSE store[t]]
    BY <1>5, SweepTerminates, Zenon
  <2> QED
    BY <1>1, <2>1 DEF SessionState
<1>6. ASSUME NEW p \in Pollers, RetentionSweep(p)
      PROVE  store[s].done >= Retention /\ pc[p] = "retention" /\ pc'[p] = "emit"
  <2>1. store'[s] = IF s \in ExpiredSessions THEN Absent ELSE store[s]
    BY <1>6 DEF RetentionSweep
  <2>2. pc[p] = "retention" /\ pc'[p] = "emit"
    BY <1>1, <1>6 DEF RetentionSweep, Goto
  <2> QED
    BY <2>1, <2>2 DEF ExpiredSessions
<1> QED
  BY <1>2, <1>3, <1>4, <1>5, <1>6, BystanderSince
     DEF Next, Poller, PollLoop, SweepAndEmit, Bystander

\* A retention sweep removes every expired session.
LEMMA ExpiredRemoved ==
  ASSUME TypeInv, [Next]_vars, NEW s \in Sessions, NEW p \in Pollers,
         pc[p] = "retention", pc'[p] = "emit",
         store[s].life = "terminal", store[s].done \in Ages, store[s].done >= Retention
  PROVE  store'[s].life = ""
<1>1. pc \in [Pollers -> Labels] /\ pc' # pc
  BY DEF TypeInv, TypeOK
<1>2. ASSUME NEW q \in Pollers, Poller(q)
      PROVE  RetentionSweep(p)
  <2>1. ASSUME NEW l, Goto(q, l)
        PROVE  q = p /\ l = "emit"
    BY <1>1, <2>1 DEF Goto
  <2>2. CASE PollLoop(q)
    <3>1. \E l \in {"source", "stopped", "idle", "handles", "parse", "commit"} : Goto(q, l)
      <4>1. CASE Begin(q) \/ RunDone(q) \/ ReturnErr(q)
        BY <4>1, Zenon DEF Begin, RunDone, ReturnErr
      <4>2. CASE Discover(q) \/ DiscoverFails(q) \/ ReadCursor(q) \/ FinishSource(q)
        BY <4>2, Zenon DEF Discover, DiscoverFails, RecordHealth, ReadCursor, FinishSource
      <4>3. CASE Parse(q) \/ ParseNothing(q) \/ ParseFails(q)
        BY <4>3, Zenon DEF Parse, ParseNothing, ParseFails
      <4>4. CASE CommitNew(q) \/ CommitResumed(q) \/ CommitTerminal(q) \/ CommitUpdated(q)
        BY <4>4, Zenon DEF CommitNew, CommitResumed, CommitTerminal, CommitUpdated, Commit
      <4> QED
        BY <2>2, <4>1, <4>2, <4>3, <4>4 DEF PollLoop
    <3> QED
      BY <2>1, <3>1
  <2>3. CASE StaleSweep(q) \/ SubagentSweep(q) \/ Return(q)
    BY <2>1, <2>3 DEF StaleSweep, SubagentSweep, Return
  <2>4. CASE EmitLifecycle(q) \/ EmitDelta(q) \/ EmitHealth(q)
    BY <1>1, <2>4 DEF EmitLifecycle, EmitDelta, EmitHealth, Emit
  <2>5. CASE RetentionSweep(q)
    BY <2>1, <2>5 DEF RetentionSweep
  <2> QED
    BY <1>2, <2>2, <2>3, <2>4, <2>5 DEF Poller, SweepAndEmit
<1>3. Agent \/ Tick \/ (\E q \in Pollers : Cancel(q)) \/ UNCHANGED vars => pc' = pc
  BY DEF Agent, Write, Tick, Cancel, vars
<1>4. RetentionSweep(p)
  BY <1>1, <1>2, <1>3 DEF Next
<1>5. s \in ExpiredSessions
  BY ConfigAssumption DEF ExpiredSessions, Ages, AgeCap, Never
<1> QED
  BY <1>4, <1>5, AbsentFields DEF RetentionSweep

\* A terminal session leaves the store in the first retention sweep that comes
\* Retention or more after the end that made it terminal, and in no other step,
\* whoever polls and however far back a source dates its ends; a resumption does
\* not leave an old end behind.
THEOREM RetentionIsKept == Spec => RemovedOnTime
<1> DEFINE OnTime(s) ==
      store[s].life = "terminal" =>
        (store'[s].life = "" <=> /\ \E p \in Pollers : pc[p] = "retention" /\ pc'[p] = "emit"
                                 /\ since[s] >= Retention)
<1>1. ASSUME TypeInv, DoneSince, [Next]_vars, NEW s \in Sessions
      PROVE  OnTime(s)
  <2> SUFFICES ASSUME store[s].life = "terminal"
               PROVE  store'[s].life = "" <=>
                        /\ \E p \in Pollers : pc[p] = "retention" /\ pc'[p] = "emit"
                        /\ since[s] >= Retention
    OBVIOUS
  <2>1. store[s].done = since[s] /\ since[s] \in Ages
    BY <1>1 DEF DoneSince, TypeInv, TypeOK
  <2> QED
    BY <1>1, <2>1, RemovedExpired, ExpiredRemoved
<1>2. TypeInv /\ DoneSince /\ [Next]_vars => [\A s \in Sessions : OnTime(s)]_vars
  BY <1>1
<1>3. TypeInv /\ DoneSince /\ [Next]_vars => DoneSince'
  BY DoneStep
<1> QED
  BY TypeInit, TypeStep, DoneInit, <1>2, <1>3, PTL DEF Spec, RemovedOnTime

-----------------------------------------------------------------------------
(* A single caller: what it holds at each label *)

\* What the rest of the system does around a call of PollOnce.
Around == Agent \/ Tick \/ (\E q \in Pollers : Cancel(q)) \/ UNCHANGED vars

LEMMA AroundLeaves ==
  ASSUME Around
  PROVE  /\ UNCHANGED <<cursors, removed, health, sinkVars, pc, poll, lastEvent>>
         /\ Tick \/ UNCHANGED store
BY DEF Around, Agent, Write, Tick, Cancel, coreVars, vars

LEMMA OnlyPoller ==
  ASSUME NEW p \in Pollers, Pollers = {p}, [Next]_vars
  PROVE  Around \/ PollLoop(p) \/ SweepAndEmit(p)
BY DEF Next, Around, Poller

\* The locals poller p has while nobody else polls: between two calls those of
\* the first line; tombstones to deliver only once the sweeps are done; in the
\* middle of a handle the cursor that is still the committed one, and a batch
\* that has records.
PollInv(p) ==
  /\ pc[p] \in {"idle", "stopped"} => poll[p] = NewPoll
  /\ poll[p].rem # {} => pc[p] = "emit"
  /\ pc[p] \in {"parse", "commit"} => poll[p].cur = cursors[poll[p].h]
  /\ pc[p] = "commit" => poll[p].batch # << >>

LEMMA PollInit == ASSUME Init, NEW p \in Pollers PROVE PollInv(p)
BY DEF Init, PollInv, NewPoll

\* The steps of a call that only read: what it has collected stays, and so does
\* everything outside it.
Reads(p) ==
  \/ Begin(p) \/ RunDone(p) \/ Discover(p)
  \/ ReadCursor(p) \/ Parse(p) \/ ParseNothing(p) \/ ParseFails(p)

Keeps(l, m) == m.upd = l.upd /\ m.rem = l.rem /\ m.lcs = l.lcs /\ m.hev = l.hev

LEMMA ForgetKeeps == ASSUME NEW l \in Poll PROVE Keeps(l, Forget(l))
BY DEF Forget, Poll, Keeps

LEMMA ReadsKeep ==
  ASSUME TypeInv, NEW p \in Pollers, Reads(p)
  PROVE  Keeps(poll[p], poll'[p]) /\ UNCHANGED <<coreVars, sinkVars>>
<1> DEFINE l == poll[p]
           f == Forget(l)
<1>1. poll \in [Pollers -> Poll] /\ l \in Poll
  BY DEF TypeInv, TypeOK
<1>2. UNCHANGED <<coreVars, sinkVars>>
  BY DEF Reads, Begin, RunDone, Discover, ReadCursor, Parse, ParseNothing, ParseFails
<1>3. CASE Begin(p) \/ RunDone(p)
  BY <1>2, <1>3 DEF Begin, RunDone, Keeps
<1>4. f \in Poll /\ Keeps(l, f) /\ f.fails + 1 \in Nat
  BY <1>1, ForgetType, ForgetKeeps, FieldsType
<1>5. ASSUME NEW m, SetLocals(p, m) PROVE poll'[p] = m
  BY <1>1, <1>5 DEF SetLocals
<1> HIDE DEF f
<1>6. CASE Discover(p)
  <2>1. PICK T : SetLocals(p, [l EXCEPT !.todo = T, !.fails = 0])
    BY <1>6, Zenon DEF Discover
  <2> HIDE DEF l
  <2>2. Keeps(l, [l EXCEPT !.todo = T, !.fails = 0])
    BY <1>1 DEF Poll, Keeps
  <2> QED
    BY <1>2, <1>5, <2>1, <2>2, Zenon DEF l
<1>7. CASE ReadCursor(p)
  <2>1. PICK T, h, c : SetLocals(p, [l EXCEPT !.todo = T, !.h = h, !.cur = c])
    BY <1>7, Zenon DEF ReadCursor
  <2> HIDE DEF l
  <2>2. Keeps(l, [l EXCEPT !.todo = T, !.h = h, !.cur = c])
    BY <1>1 DEF Poll, Keeps
  <2> QED
    BY <1>2, <1>5, <2>1, <2>2, Zenon DEF l
<1>8. CASE Parse(p)
  <2>1. PICK b : SetLocals(p, [l EXCEPT !.batch = b])
    BY <1>8, Zenon DEF Parse
  <2> HIDE DEF l
  <2>2. Keeps(l, [l EXCEPT !.batch = b])
    BY <1>1 DEF Poll, Keeps
  <2> QED
    BY <1>2, <1>5, <2>1, <2>2, Zenon DEF l
<1>9. CASE ParseNothing(p) \/ ParseFails(p)
  <2>1. SetLocals(p, f) \/ SetLocals(p, [f EXCEPT !.fails = @ + 1])
    BY <1>9, Zenon DEF ParseNothing, ParseFails, f
  <2>2. Keeps(l, [f EXCEPT !.fails = @ + 1])
    BY <1>4 DEF Poll, Keeps
  <2> QED
    BY <1>2, <1>4, <1>5, <2>1, <2>2, Zenon
<1> QED
  BY <1>3, <1>6, <1>7, <1>8, <1>9 DEF Reads

\* A call returns with nothing left to deliver.
LEMMA ReturnKeeps ==
  ASSUME TypeInv, NEW p \in Pollers, Return(p)
  PROVE  Keeps(poll[p], poll'[p]) /\ UNCHANGED <<coreVars, sinkVars>>
<1>1. poll \in [Pollers -> Poll] /\ poll[p].upd \in [Sessions -> Views]
  BY FieldsType DEF TypeInv, TypeOK
<1>2. /\ poll[p].lcs = << >> /\ poll[p].hev = << >> /\ poll[p].rem = {}
      /\ \A s \in Sessions : poll[p].upd[s] = NoView
      /\ poll'[p] = NewPoll
      /\ UNCHANGED <<coreVars, sinkVars>>
  BY <1>1 DEF Return, HasDelta, Updates, SetLocals
<1>3. poll[p].upd = [s \in Sessions |-> NoView]
  BY <1>1, <1>2
<1> QED
  BY <1>2, <1>3 DEF NewPoll, Keeps

Commits(p) == CommitNew(p) \/ CommitResumed(p) \/ CommitTerminal(p) \/ CommitUpdated(p)

\* What a commit leaves in the locals: the state under the session's ID, the
\* event at the end of the queue.
LEMMA CommitKeeps ==
  ASSUME TypeInv, NEW p \in Pollers, Commits(p)
  PROVE  /\ SessionAt(p) \in Sessions /\ poll[p].h \in Handles
         /\ pc[p] = "commit" /\ Goto(p, "handles") /\ UNCHANGED <<health, sinkVars>>
         /\ cursors' = [cursors EXCEPT ![poll[p].h] = poll[p].cur + Len(poll[p].batch)]
         /\ poll'[p].rem = poll[p].rem /\ poll'[p].hev = poll[p].hev
         /\ \E st \in SessionState,
               type \in {"discovered", "updated", "resumed", "terminal"},
               from \in {"", "active", "terminal"} :
              /\ CommitOf(p, st, type)
              /\ store' = [store EXCEPT ![SessionAt(p)] = st]
              /\ poll'[p].upd = [poll[p].upd EXCEPT ![SessionAt(p)] = View(st)]
              /\ poll'[p].lcs =
                   Append(poll[p].lcs, LifecycleEvent(type, SessionAt(p), from, st.life))
<1> DEFINE l == poll[p]
           f == Forget(l)
           s == SessionAt(p)
<1>1. PICK st \in SessionState,
           type \in {"discovered", "updated", "resumed", "terminal"},
           from \in {"", "active", "terminal"} :
             Commit(p, st, type, from) /\ CommitOf(p, st, type)
  BY CommitCases, Zenon DEF Commits
<1>2. SessionAt(p) \in Sessions /\ poll[p].h \in Handles /\ pc[p] = "commit"
  BY CommitCases, Zenon DEF Commits
<1> DEFINE e == LifecycleEvent(type, s, from, st.life)
           m == [f EXCEPT !.upd[s] = View(st), !.lcs = Append(@, e)]
<1>3. /\ store' = [store EXCEPT ![s] = st]
      /\ cursors' = [cursors EXCEPT ![poll[p].h] = poll[p].cur + Len(poll[p].batch)]
      /\ SetLocals(p, m) /\ Goto(p, "handles")
      /\ UNCHANGED <<health, sinkVars>>
  BY <1>1, Zenon DEF Commit, SessionAt
<1>4. poll \in [Pollers -> Poll] /\ l \in Poll
  BY DEF TypeInv, TypeOK
<1>5. f \in Poll /\ Keeps(l, f)
  BY <1>4, ForgetType, ForgetKeeps
<1>6. poll'[p] = m
  BY <1>3, <1>4 DEF SetLocals
<1> HIDE DEF f, e, l
<1>7. /\ m.upd = [f.upd EXCEPT ![s] = View(st)] /\ m.lcs = Append(f.lcs, e)
      /\ m.rem = f.rem /\ m.hev = f.hev
  BY <1>5 DEF Poll
<1> HIDE DEF m
<1>8. /\ poll'[p].upd = [l.upd EXCEPT ![s] = View(st)] /\ poll'[p].lcs = Append(l.lcs, e)
      /\ poll'[p].rem = l.rem /\ poll'[p].hev = l.hev
  BY <1>5, <1>6, <1>7 DEF Keeps
<1> QED
  BY <1>1, <1>2, <1>3, <1>8, Zenon DEF l, e

\* A new health record is noted in the queue of health events only.
LEMMA HealthKeeps ==
  ASSUME TypeInv, NEW p \in Pollers, NEW new, RecordHealth(p, poll[p].src, new)
  PROVE  /\ health' = [health EXCEPT ![poll[p].src] = new] /\ Goto(p, "source")
         /\ UNCHANGED <<store, cursors, removed, sinkVars>>
         /\ poll'[p].upd = poll[p].upd /\ poll'[p].rem = poll[p].rem
         /\ poll'[p].lcs = poll[p].lcs
         /\ poll'[p].hev = poll[p].hev \o HealthEvents(poll[p].src, new)
<1> DEFINE l == poll[p]
           H == HealthEvents(poll[p].src, new)
           m == [l EXCEPT !.src = @ + 1, !.hev = @ \o H]
<1>1. poll \in [Pollers -> Poll] /\ l \in Poll
  BY DEF TypeInv, TypeOK
<1>2. /\ health' = [health EXCEPT ![poll[p].src] = new] /\ Goto(p, "source")
      /\ UNCHANGED <<store, cursors, removed, sinkVars>> /\ SetLocals(p, m)
  BY Zenon DEF RecordHealth
<1>3. poll'[p] = m
  BY <1>1, <1>2 DEF SetLocals
<1> HIDE DEF l, H
<1>4. m.upd = l.upd /\ m.rem = l.rem /\ m.lcs = l.lcs /\ m.hev = l.hev \o H
  BY <1>1 DEF Poll
<1> HIDE DEF m
<1> QED
  BY <1>2, <1>3, <1>4, Zenon DEF l, H

LEMMA RecordsHealth ==
  ASSUME TypeInv, NEW p \in Pollers, DiscoverFails(p) \/ FinishSource(p)
  PROVE  poll[p].src \in Sources /\ \E new : RecordHealth(p, poll[p].src, new)
<1>1. poll[p] \in Poll
  BY DEF TypeInv, TypeOK
<1>2. CASE DiscoverFails(p)
  <2>1. poll[p].src \in Sources
    BY <1>1, <1>2, FieldsType, ConfigAssumption DEF DiscoverFails, AtSource, Sources
  <2> QED
    BY <1>2, <2>1, Zenon DEF DiscoverFails
<1>3. CASE FinishSource(p)
  <2>1. poll[p].src \in Sources
    BY <1>3 DEF FinishSource, TypeInv, LocalsInScope
  <2> QED
    BY <1>3, <2>1, Zenon DEF FinishSource
<1> QED
  BY <1>2, <1>3

\* The events of a sweep, in the order of the map iteration.
SweepEvents(type, order, from, to) ==
  [i \in DOMAIN order |-> LifecycleEvent(type, order[i], from, to)]

\* The two sweeps that terminate the sessions of a set.
LEMMA TerminateKeeps ==
  ASSUME TypeInv, NEW p \in Pollers, StaleSweep(p) \/ SubagentSweep(p)
  PROVE  /\ pc[p] \in {"source", "subagents"}
         /\ (Goto(p, "subagents") \/ Goto(p, "retention"))
         /\ UNCHANGED <<cursors, removed, health, sinkVars>>
         /\ poll'[p].rem = poll[p].rem /\ poll'[p].hev = poll[p].hev
         /\ \E S \in SUBSET Sessions, type \in {"stale", "terminal"} :
            \E order \in SetToSeqs(S) :
              /\ \A s \in S : Active(s)
              /\ store' = [s \in Sessions |->
                    IF s \in S THEN [store[s] EXCEPT !.life = "terminal", !.done = 0]
                    ELSE store[s]]
              /\ poll'[p].upd = [s \in Sessions |->
                    IF s \in S THEN [View(store[s]) EXCEPT !.life = "terminal"]
                    ELSE poll[p].upd[s]]
              /\ poll'[p].lcs = poll[p].lcs \o SweepEvents(type, order, "active", "terminal")
<1> DEFINE l == poll[p]
<1>1. PICK S \in SUBSET Sessions, type \in {"stale", "terminal"} :
         Terminate(p, S, type) /\ \A s \in S : Active(s)
  <2>1. /\ StaleSessions \in SUBSET Sessions /\ \A s \in StaleSessions : Active(s)
        /\ CompletedChildren \in SUBSET Sessions /\ \A s \in CompletedChildren : Active(s)
    BY DEF StaleSessions, CompletedChildren
  <2> QED
    BY <2>1, Zenon DEF StaleSweep, SubagentSweep
<1>2. pc[p] \in {"source", "subagents"} /\ (Goto(p, "subagents") \/ Goto(p, "retention"))
  BY DEF StaleSweep, SubagentSweep
<1>3. poll \in [Pollers -> Poll] /\ l \in Poll
  BY DEF TypeInv, TypeOK
<1> DEFINE u == [s \in Sessions |->
                   IF s \in S THEN [View(store[s]) EXCEPT !.life = "terminal"] ELSE l.upd[s]]
<1>4. PICK order \in SetToSeqs(S) :
         SetLocals(p, [l EXCEPT
           !.upd = u, !.lcs = @ \o SweepEvents(type, order, "active", "terminal")])
  BY <1>1, Zenon DEF Terminate, SweepEvents
<1> DEFINE E == SweepEvents(type, order, "active", "terminal")
           m == [l EXCEPT !.upd = u, !.lcs = @ \o E]
<1>5. poll'[p] = m
  BY <1>3, <1>4, Zenon DEF SetLocals
<1>6. /\ store' = [s \in Sessions |->
             IF s \in S THEN [store[s] EXCEPT !.life = "terminal", !.done = 0] ELSE store[s]]
      /\ UNCHANGED <<cursors, removed, health, sinkVars>>
  BY <1>1, Zenon DEF Terminate
<1> HIDE DEF l, u, E
<1>7. m.upd = u /\ m.lcs = l.lcs \o E /\ m.rem = l.rem /\ m.hev = l.hev
  BY <1>3 DEF Poll
<1> HIDE DEF m
<1>8. /\ poll'[p].upd = u /\ poll'[p].lcs = l.lcs \o E
      /\ poll'[p].rem = l.rem /\ poll'[p].hev = l.hev
  BY <1>5, <1>7, Zenon
<1> QED
  BY <1>1, <1>2, <1>4, <1>6, <1>8, Zenon DEF l, u, E

LEMMA RetentionKeeps ==
  ASSUME TypeInv, NEW p \in Pollers, RetentionSweep(p)
  PROVE  /\ pc[p] = "retention" /\ Goto(p, "emit")
         /\ UNCHANGED <<cursors, health, sinkVars>>
         /\ store' = [s \in Sessions |-> IF s \in ExpiredSessions THEN Absent ELSE store[s]]
         /\ removed' = removed \cup ExpiredSessions
         /\ poll'[p].rem = ExpiredSessions
         /\ poll'[p].upd = poll[p].upd /\ poll'[p].hev = poll[p].hev
         /\ \E order \in SetToSeqs(ExpiredSessions) :
              poll'[p].lcs = poll[p].lcs \o SweepEvents("removed", order, "terminal", "")
<1> DEFINE l == poll[p]
           S == ExpiredSessions
<1>1. poll \in [Pollers -> Poll] /\ l \in Poll
  BY DEF TypeInv, TypeOK
<1>2. PICK order \in SetToSeqs(S) :
         SetLocals(p, [l EXCEPT
           !.rem = S, !.lcs = @ \o SweepEvents("removed", order, "terminal", "")])
  BY Zenon DEF RetentionSweep, SweepEvents
<1> DEFINE E == SweepEvents("removed", order, "terminal", "")
           m == [l EXCEPT !.rem = S, !.lcs = @ \o E]
<1>3. poll'[p] = m
  BY <1>1, <1>2, Zenon DEF SetLocals
<1>4. /\ pc[p] = "retention" /\ Goto(p, "emit")
      /\ UNCHANGED <<cursors, health, sinkVars>>
      /\ store' = [s \in Sessions |-> IF s \in S THEN Absent ELSE store[s]]
      /\ removed' = removed \cup S
  BY Zenon DEF RetentionSweep
<1> HIDE DEF l, S, E
<1>5. m.rem = S /\ m.lcs = l.lcs \o E /\ m.upd = l.upd /\ m.hev = l.hev
  BY <1>1 DEF Poll
<1> HIDE DEF m
<1> QED
  BY <1>2, <1>3, <1>4, <1>5, Zenon DEF l, S, E

\* The three steps of the delivery.
LEMMA EmitKeeps ==
  ASSUME TypeInv, NEW p \in Pollers, EmitLifecycle(p) \/ EmitDelta(p) \/ EmitHealth(p)
  PROVE  pc[p] = "emit" /\ UNCHANGED <<coreVars, pc>>
BY DEF EmitLifecycle, EmitDelta, EmitHealth, Emit

LEMMA EmitLifecycleKeeps ==
  ASSUME TypeInv, NEW p \in Pollers, EmitLifecycle(p)
  PROVE  /\ poll[p].lcs # << >> /\ poll'[p].lcs = Tail(poll[p].lcs)
         /\ seen' = [seen EXCEPT ![Head(poll[p].lcs).id] = Head(poll[p].lcs)]
         /\ poll'[p].upd = poll[p].upd /\ poll'[p].rem = poll[p].rem
         /\ poll'[p].hev = poll[p].hev
         /\ UNCHANGED <<replica, sinkHealth>>
<1> DEFINE l == poll[p]
           t == Tail(l.lcs)
           m == [l EXCEPT !.lcs = t]
<1>1. poll \in [Pollers -> Poll] /\ l \in Poll
  BY DEF TypeInv, TypeOK
<1>2. /\ l.lcs # << >> /\ SetLocals(p, m)
      /\ seen' = [seen EXCEPT ![Head(l.lcs).id] = Head(l.lcs)]
      /\ UNCHANGED <<replica, sinkHealth>>
  BY Zenon DEF EmitLifecycle
<1>3. poll'[p] = m
  BY <1>1, <1>2 DEF SetLocals
<1> HIDE DEF l, t
<1>4. m.lcs = t /\ m.upd = l.upd /\ m.rem = l.rem /\ m.hev = l.hev
  BY <1>1 DEF Poll
<1> HIDE DEF m
<1> QED
  BY <1>2, <1>3, <1>4, Zenon DEF l, t

LEMMA EmitDeltaKeeps ==
  ASSUME TypeInv, NEW p \in Pollers, EmitDelta(p)
  PROVE  /\ poll'[p].upd = [s \in Sessions |-> NoView] /\ poll'[p].rem = {}
         /\ replica' = [s \in Sessions |->
              IF s \in poll[p].rem THEN NoView
              ELSE IF s \in Updates(p) THEN poll[p].upd[s] ELSE replica[s]]
         /\ poll'[p].lcs = poll[p].lcs /\ poll'[p].hev = poll[p].hev
         /\ UNCHANGED <<seen, sinkHealth>>
<1> DEFINE l == poll[p]
           u == NewPoll.upd
           m == [l EXCEPT !.upd = u, !.rem = {}]
<1>1. poll \in [Pollers -> Poll] /\ l \in Poll /\ u = [s \in Sessions |-> NoView]
  BY DEF TypeInv, TypeOK, NewPoll
<1>2. /\ SetLocals(p, m) /\ UNCHANGED <<seen, sinkHealth>>
      /\ replica' = [s \in Sessions |->
           IF s \in poll[p].rem THEN NoView
           ELSE IF s \in Updates(p) THEN poll[p].upd[s] ELSE replica[s]]
  BY Zenon DEF EmitDelta
<1>3. poll'[p] = m
  BY <1>1, <1>2 DEF SetLocals
<1> HIDE DEF l, u
<1>4. m.upd = u /\ m.rem = {} /\ m.lcs = l.lcs /\ m.hev = l.hev
  BY <1>1 DEF Poll
<1> HIDE DEF m
<1> QED
  BY <1>1, <1>2, <1>3, <1>4, Zenon DEF l

LEMMA EmitHealthKeeps ==
  ASSUME TypeInv, NEW p \in Pollers, EmitHealth(p)
  PROVE  /\ poll[p].hev # << >> /\ poll'[p].hev = Tail(poll[p].hev)
         /\ sinkHealth' =
              [sinkHealth EXCEPT ![Head(poll[p].hev).source] = Head(poll[p].hev).status]
         /\ poll'[p].upd = poll[p].upd /\ poll'[p].rem = poll[p].rem
         /\ poll'[p].lcs = poll[p].lcs
         /\ UNCHANGED <<replica, seen>>
<1> DEFINE l == poll[p]
           t == Tail(l.hev)
           m == [l EXCEPT !.hev = t]
<1>1. poll \in [Pollers -> Poll] /\ l \in Poll
  BY DEF TypeInv, TypeOK
<1>2. /\ l.hev # << >> /\ SetLocals(p, m)
      /\ sinkHealth' = [sinkHealth EXCEPT ![Head(l.hev).source] = Head(l.hev).status]
      /\ UNCHANGED <<replica, seen>>
  BY Zenon DEF EmitHealth
<1>3. poll'[p] = m
  BY <1>1, <1>2 DEF SetLocals
<1> HIDE DEF l, t
<1>4. m.hev = t /\ m.upd = l.upd /\ m.rem = l.rem /\ m.lcs = l.lcs
  BY <1>1 DEF Poll
<1> HIDE DEF m
<1> QED
  BY <1>2, <1>3, <1>4, Zenon DEF l, t

\* A label at which PollInv asks nothing of the locals but that rem is empty.
LEMMA PollMoves ==
  ASSUME TypeInv, NEW p \in Pollers, NEW k, Goto(p, k),
         k \notin {"idle", "stopped", "parse", "commit"},
         k = "emit" \/ poll'[p].rem = {}
  PROVE  PollInv(p)'
<1>1. pc'[p] = k
  BY DEF TypeInv, TypeOK, Goto
<1> QED
  BY <1>1 DEF PollInv

LEMMA PollStep ==
  ASSUME NEW p \in Pollers, Pollers = {p}, TypeInv, TypeInv', PollInv(p), [Next]_vars
  PROVE  PollInv(p)'
<1>1. /\ poll \in [Pollers -> Poll] /\ pc \in [Pollers -> Labels]
      /\ cursors \in [Handles -> Nat] /\ poll[p] \in Poll
  BY DEF TypeInv, TypeOK
<1>2. CASE Around
  BY <1>2, AroundLeaves DEF PollInv
<1>3. CASE Begin(p) \/ RunDone(p) \/ ReturnErr(p) \/ Return(p)
  <2>1. NewPoll.rem = {}
    BY DEF NewPoll
  <2>2. CASE Begin(p)
    <3>1. pc'[p] = "source" /\ poll' = poll /\ poll[p] = NewPoll
      BY <1>1, <2>2 DEF PollInv, Begin, Goto
    <3> QED
      BY <2>1, <3>1 DEF PollInv
  <2>3. CASE RunDone(p)
    <3>1. pc'[p] = "stopped" /\ poll' = poll /\ poll[p] = NewPoll
      BY <1>1, <2>3 DEF PollInv, RunDone, Goto
    <3> QED
      BY <2>1, <3>1 DEF PollInv
  <2>4. CASE ReturnErr(p) \/ Return(p)
    <3>1. pc'[p] \in {"idle", "stopped"} /\ poll'[p] = NewPoll
      BY <1>1, <2>4 DEF ReturnErr, Return, Goto, SetLocals
    <3> QED
      BY <2>1, <3>1 DEF PollInv
  <2> QED
    BY <1>3, <2>2, <2>3, <2>4
<1>4. CASE Discover(p) \/ ParseNothing(p) \/ ParseFails(p)
  <2>1. poll[p].rem = {}
    BY <1>4 DEF PollInv, Discover, AtSource, ParseNothing, ParseFails
  <2>2. poll'[p].rem = {}
    BY <1>4, <2>1, ReadsKeep DEF Reads, Keeps
  <2>3. Goto(p, "handles")
    BY <1>4 DEF Discover, ParseNothing, ParseFails
  <2> QED
    BY <2>2, <2>3, PollMoves
<1>5. CASE ReadCursor(p)
  <2>1. poll[p].rem = {} /\ pc'[p] = "parse"
    BY <1>1, <1>5 DEF PollInv, ReadCursor, AtHandle, Goto
  <2>2. poll'[p].rem = {} /\ cursors' = cursors
    BY <1>5, <2>1, ReadsKeep DEF Reads, Keeps, coreVars
  <2>3. PICK h \in poll[p].todo :
          SetLocals(p, [poll[p] EXCEPT !.todo = @ \ {h}, !.h = h, !.cur = cursors[h]])
    BY <1>5, Zenon DEF ReadCursor
  <2>4. poll'[p].h = h /\ poll'[p].cur = cursors[h]
    BY <1>1, <2>3 DEF SetLocals, Poll
  <2> QED
    BY <2>1, <2>2, <2>4 DEF PollInv
<1>6. CASE Parse(p)
  <2>1. poll[p].rem = {} /\ pc'[p] = "commit" /\ poll[p].cur = cursors[poll[p].h]
    BY <1>1, <1>6 DEF PollInv, Parse, Goto
  <2>2. poll'[p].rem = {} /\ cursors' = cursors
    BY <1>6, <2>1, ReadsKeep DEF Reads, Keeps, coreVars
  <2> DEFINE b == Unread(p)
  <2>3. SetLocals(p, [poll[p] EXCEPT !.batch = b]) /\ b # << >>
    BY <1>6, Zenon DEF Parse
  <2> HIDE DEF b
  <2>4. /\ poll'[p].h = poll[p].h /\ poll'[p].cur = poll[p].cur
        /\ poll'[p].batch = b
    BY <1>1, <2>3 DEF SetLocals, Poll
  <2> QED
    BY <2>1, <2>2, <2>3, <2>4 DEF PollInv
<1>7. CASE Commits(p)
  <2>1. poll[p].rem = {} /\ poll'[p].rem = poll[p].rem /\ Goto(p, "handles")
    BY <1>7, CommitKeeps DEF PollInv
  <2> QED
    BY <2>1, PollMoves
<1>8. CASE DiscoverFails(p) \/ FinishSource(p)
  <2>1. poll[p].rem = {}
    BY <1>8 DEF PollInv, DiscoverFails, FinishSource, AtSource
  <2>2. poll'[p].rem = poll[p].rem /\ Goto(p, "source")
    BY <1>8, RecordsHealth, HealthKeeps
  <2> QED
    BY <2>1, <2>2, PollMoves
<1>9. CASE StaleSweep(p) \/ SubagentSweep(p)
  <2>1. /\ pc[p] \in {"source", "subagents"} /\ poll'[p].rem = poll[p].rem
        /\ (Goto(p, "subagents") \/ Goto(p, "retention"))
    BY <1>9, TerminateKeeps
  <2>2. poll[p].rem = {}
    BY <2>1 DEF PollInv
  <2> QED
    BY <2>1, <2>2, PollMoves
<1>10. CASE RetentionSweep(p)
  BY <1>10, RetentionKeeps, PollMoves
<1>11. CASE EmitLifecycle(p) \/ EmitDelta(p) \/ EmitHealth(p)
  <2>1. pc'[p] = "emit"
    BY <1>11, EmitKeeps
  <2> QED
    BY <2>1 DEF PollInv
<1> QED
  BY <1>2, <1>3, <1>4, <1>5, <1>6, <1>7, <1>8, <1>9, <1>10, <1>11, OnlyPoller
     DEF PollLoop, SweepAndEmit, Commits

\* The steps of a call that leave the store alone.
LEMMA BystanderStores ==
  ASSUME NEW p \in Pollers, Bystander(p) PROVE UNCHANGED <<store, removed>>
BY BystanderLeaves

LEMMA PollerSteps ==
  ASSUME NEW p \in Pollers, Pollers = {p}, [Next]_vars
  PROVE  \/ Around \/ Bystander(p) \/ Commits(p)
         \/ StaleSweep(p) \/ SubagentSweep(p) \/ RetentionSweep(p)
BY OnlyPoller DEF PollLoop, SweepAndEmit, Bystander, Commits

LEMMA ResumeStep ==
  ASSUME NEW p \in Pollers, Pollers = {p}, TypeInv, PollInv(p), [Next]_vars,
         NEW s \in Sessions, StateOf(s) \in {"terminal", "removed"}, StateOf(s)' = "active"
  PROVE  \E h \in Handles : h[2] = s /\ cursors'[h] > cursors[h]
<1>1. store \in [Sessions -> SessionState] /\ store[s] \in SessionState
  BY DEF TypeInv, TypeOK
<1>2. store[s].life # "active"
  BY DEF StateOf, Tracked
<1>3. store'[s].life = "active"
  BY DEF StateOf, Tracked
<1>4. CASE Around
  BY <1>2, <1>3, <1>4, AroundLeaves, TickAges
<1>5. CASE Bystander(p)
  BY <1>2, <1>3, <1>5, BystanderStores
<1>6. CASE Commits(p)
  <2> DEFINE h == poll[p].h
             n == Len(poll[p].batch)
  <2>1. /\ h \in Handles /\ pc[p] = "commit"
        /\ cursors' = [cursors EXCEPT ![h] = poll[p].cur + n]
    BY <1>6, CommitKeeps
  <2>2. PICK st : store' = [store EXCEPT ![SessionAt(p)] = st]
    BY <1>6, CommitKeeps
  <2>3. s = SessionAt(p)
    BY <1>1, <1>2, <1>3, <2>2
  <2>4. cursors \in [Handles -> Nat] /\ poll[p].batch \in Seq(Records)
    BY FieldsType DEF TypeInv, TypeOK
  <2>5. poll[p].cur = cursors[h] /\ poll[p].batch # << >>
    BY <2>1 DEF PollInv
  <2>6. n \in Nat \ {0}
    BY <2>4, <2>5, EmptySeq
  <2>7. cursors'[h] = cursors[h] + n /\ cursors[h] \in Nat
    BY <2>1, <2>4, <2>5
  <2>8. h[2] = s
    BY <2>3 DEF SessionAt
  <2> HIDE DEF h, n
  <2>9. cursors'[h] > cursors[h]
    BY <2>6, <2>7
  <2> QED
    BY <2>1, <2>8, <2>9
<1>7. CASE StaleSweep(p) \/ SubagentSweep(p)
  <2>1. PICK S \in SUBSET Sessions :
          store' = [t \in Sessions |->
            IF t \in S THEN [store[t] EXCEPT !.life = "terminal", !.done = 0] ELSE store[t]]
    BY <1>7, SweepTerminates, Zenon
  <2> QED
    BY <1>1, <1>2, <1>3, <2>1 DEF SessionState
<1>8. CASE RetentionSweep(p)
  BY <1>2, <1>3, <1>8, RetentionKeeps, AbsentFields
<1> QED
  BY <1>4, <1>5, <1>6, <1>7, <1>8, PollerSteps

\* With one goroutine polling, a session that ended or was removed comes back
\* only in a step that consumes records nobody had consumed: the cursor read at
\* the start of a handle is still the committed one when the batch is committed,
\* and an empty batch is never committed.
THEOREM OnlyNewDataBringsBack ==
  ASSUME NEW p \in Pollers, Pollers = {p}
  PROVE  Spec => OnlyNewDataResumes
<1>1. TypeInv /\ PollInv(p) /\ [Next]_vars =>
        [\A s \in Sessions :
           StateOf(s) \in {"terminal", "removed"} /\ StateOf(s)' = "active"
             => \E h \in Handles : h[2] = s /\ cursors'[h] > cursors[h]]_vars
  BY ResumeStep
<1>2. TypeInv /\ TypeInv' /\ PollInv(p) /\ [Next]_vars => PollInv(p)'
  BY PollStep
<1>3. Init => PollInv(p)
  BY PollInit
<1> QED
  BY TypeInit, TypeStep, <1>1, <1>2, <1>3, PTL DEF Spec, OnlyNewDataResumes

-----------------------------------------------------------------------------
(* Sub-agents *)

\* What matters of a session's state for the sub-agent sweep.
SameLineage(st, tt) == tt.life = st.life /\ tt.slug = st.slug /\ tt.subs = st.subs

LEMMA AroundLineage ==
  ASSUME TypeInv, Around, NEW s \in Sessions
  PROVE  SameLineage(store[s], store'[s])
<1>1. store[s] \in SessionState
  BY DEF TypeInv, TypeOK
<1>2. CASE Tick
  <2> DEFINE d == Older(store[s].done)
             e == Older(store[s].data)
  <2>1. store'[s] = [store[s] EXCEPT !.done = d, !.data = e]
    BY <1>2, Zenon DEF Tick
  <2> HIDE DEF d, e
  <2> QED
    BY <1>1, <2>1 DEF SessionState, SameLineage
<1>3. CASE store' = store
  BY <1>3 DEF SameLineage
<1> QED
  BY <1>2, <1>3, AroundLeaves

LEMMA OrphanStep ==
  ASSUME NEW p \in Pollers, Pollers = {p}, TypeInv, NoOrphanedSubagent, [Next]_vars
  PROVE  NoOrphanedSubagent'
<1> SUFFICES ASSUME pc'[p] \in {"retention", "emit"},
                    NEW child \in Sessions, NEW parent \in Sessions,
                    store'[child].slug \in store'[parent].subs,
                    store'[child].life = "active"
             PROVE  FALSE
  BY DEF NoOrphanedSubagent, Active
<1>1. /\ store \in [Sessions -> SessionState]
      /\ store[child] \in SessionState /\ store[parent] \in SessionState
      /\ pc \in [Pollers -> Labels]
  BY DEF TypeInv, TypeOK
<1>2. pc[p] \in {"retention", "emit"} =>
        ~(store[child].slug \in store[parent].subs /\ store[child].life = "active")
  BY DEF NoOrphanedSubagent, Active
<1>3. CASE Around
  <2>1. pc' = pc
    BY <1>3, AroundLeaves
  <2>2. SameLineage(store[child], store'[child]) /\ SameLineage(store[parent], store'[parent])
    BY <1>3, AroundLineage
  <2> QED
    BY <1>2, <2>1, <2>2 DEF SameLineage
<1>4. CASE Bystander(p)
  <2>1. store' = store
    BY <1>4, BystanderStores
  <2>2. CASE EmitLifecycle(p) \/ EmitDelta(p) \/ EmitHealth(p)
    BY <1>2, <2>1, <2>2, EmitKeeps
  <2>3. CASE ~(EmitLifecycle(p) \/ EmitDelta(p) \/ EmitHealth(p))
    <3>1. PICK k \in {"source", "stopped", "idle", "handles", "parse", "commit"} : Goto(p, k)
      BY <1>4, <2>3 DEF Bystander, Begin, RunDone, ReturnErr, Discover, DiscoverFails,
         ReadCursor, Parse, ParseNothing, ParseFails, FinishSource, Return, RecordHealth
    <3>2. pc'[p] = k
      BY <1>1, <3>1 DEF Goto
    <3> QED
      BY <3>2
  <2> QED
    BY <2>2, <2>3
<1>5. CASE Commits(p)
  <2>1. pc'[p] = "handles"
    BY <1>1, <1>5, CommitKeeps DEF Goto
  <2> QED
    BY <2>1
<1>6. CASE StaleSweep(p)
  <2>1. pc'[p] = "subagents"
    BY <1>1, <1>6 DEF StaleSweep, Goto
  <2> QED
    BY <2>1
<1>7. CASE SubagentSweep(p)
  <2> DEFINE S == CompletedChildren
  <2>1. \A s \in Sessions :
          store'[s] = IF s \in S THEN [store[s] EXCEPT !.life = "terminal", !.done = 0]
                      ELSE store[s]
    BY <1>7 DEF SubagentSweep, Terminate
  <2> HIDE DEF S
  <2>2. store'[parent].subs = store[parent].subs
    BY <1>1, <2>1 DEF SessionState
  <2>3. child \notin S /\ store'[child] = store[child]
    BY <1>1, <2>1 DEF SessionState
  <2>4. store[child].slug \in store[parent].subs /\ store[child].life = "active"
    BY <2>2, <2>3
  <2>5. store[child].slug \in CompletedSlugs
    BY <2>4 DEF CompletedSlugs
  <2> QED
    BY <2>3, <2>4, <2>5 DEF S, CompletedChildren, Active
<1>8. CASE RetentionSweep(p)
  <2>1. /\ pc[p] = "retention"
        /\ store' = [s \in Sessions |-> IF s \in ExpiredSessions THEN Absent ELSE store[s]]
    BY <1>8, RetentionKeeps
  <2>2. Absent.life = "" /\ Absent.subs = {}
    BY DEF Absent
  <2>3. store'[child] = store[child] /\ store'[parent] = store[parent]
    BY <2>1, <2>2
  <2> QED
    BY <1>2, <2>1, <2>3
<1> QED
  BY <1>3, <1>4, <1>5, <1>6, <1>7, <1>8, PollerSteps

\* With one goroutine polling, from the end of the sub-agent sweep until the call
\* returns no session is active that a session in the store reports as a
\* completed sub-agent: neither the retention sweep nor the delivery undoes it.
THEOREM NoSubagentIsOrphaned ==
  ASSUME NEW p \in Pollers, Pollers = {p}
  PROVE  Spec => []NoOrphanedSubagent
<1>1. Init => NoOrphanedSubagent
  BY DEF Init, NoOrphanedSubagent
<1>2. TypeInv /\ NoOrphanedSubagent /\ [Next]_vars => NoOrphanedSubagent'
  BY OrphanStep
<1> QED
  BY TypeInit, TypeStep, <1>1, <1>2, PTL DEF Spec

-----------------------------------------------------------------------------
(* Deltas: what a consumer that applies them holds *)

\* Without cancellations no call is abandoned.
CtxLive == \A p \in Pollers : ctx[p] = "live"

LEMMA CtxInit == Init => CtxLive
BY DEF Init, CtxLive

LEMMA CtxStep ==
  ASSUME "cancel" \notin FaultKinds, TypeInv, CtxLive, [Next]_vars
  PROVE  CtxLive'
<1>1. ctx \in [Pollers -> {"live", "cancelled"}]
  BY DEF TypeInv, TypeOK
<1>2. CASE Agent \/ Tick \/ UNCHANGED vars
  BY <1>2 DEF CtxLive, Agent, Write, Tick, vars
<1>3. ASSUME NEW p \in Pollers, Cancel(p) PROVE FALSE
  BY <1>3 DEF Cancel, CanFail
<1>4. ASSUME NEW p \in Pollers, Poller(p) PROVE CtxLive'
  <2>1. ctx' = ctx \/ ctx' = [ctx EXCEPT ![p] = "live"]
    BY <1>4, ZenonT(60) DEF Poller, PollLoop, SweepAndEmit, Begin, RunDone, ReturnErr, Discover,
       DiscoverFails, ReadCursor, Parse, ParseNothing, ParseFails, FinishSource,
       RecordHealth, CommitNew, CommitResumed, CommitTerminal, CommitUpdated, Commit,
       StaleSweep, SubagentSweep, Terminate, RetentionSweep, EmitLifecycle, EmitDelta,
       EmitHealth, Emit, Return
  <2> QED
    BY <1>1, <2>1 DEF CtxLive
<1> QED
  BY <1>2, <1>3, <1>4 DEF Next

LEMMA NothingAbandoned == ASSUME NEW p \in Pollers, CtxLive PROVE ~ReturnErr(p)
BY DEF CtxLive, ReturnErr

\* What a step can do to what has been collected and delivered, when one
\* goroutine polls.
LEMMA SoleSteps ==
  ASSUME NEW p \in Pollers, Pollers = {p}, [Next]_vars
  PROVE  \/ ReturnErr(p)
         \/ Around \/ Reads(p) \/ Return(p) \/ DiscoverFails(p) \/ FinishSource(p)
         \/ Commits(p) \/ StaleSweep(p) \/ SubagentSweep(p) \/ RetentionSweep(p)
         \/ EmitLifecycle(p) \/ EmitDelta(p) \/ EmitHealth(p)
BY OnlyPoller DEF PollLoop, SweepAndEmit, Reads, Commits

\* What the consumer will hold for session s once poller p's delta, if it sent
\* one now, is applied: a removal, else a collected state, else what it holds.
Pending(p, s) ==
  IF s \in poll[p].rem THEN NoView
  ELSE IF poll[p].upd[s] # NoView THEN poll[p].upd[s] ELSE replica[s]

ViewInv(p) == \A s \in Sessions : View(store[s]) = Pending(p, s)

LEMMA ViewInit == ASSUME Init, NEW p \in Pollers PROVE ViewInv(p)
<1>1. poll[p].rem = {} /\ poll[p].upd = [s \in Sessions |-> NoView]
  BY DEF Init, NewPoll
<1>2. \A s \in Sessions : View(store[s]) = NoView /\ replica[s] = NoView
  BY DEF Init, NoView
<1> QED
  BY <1>1, <1>2 DEF ViewInv, Pending

LEMMA AroundView ==
  ASSUME TypeInv, Around, NEW s \in Sessions
  PROVE  View(store'[s]) = View(store[s])
<1>1. store[s] \in SessionState
  BY DEF TypeInv, TypeOK
<1>2. CASE Tick
  <2> DEFINE d == Older(store[s].done)
             e == Older(store[s].data)
  <2>1. store'[s] = [store[s] EXCEPT !.done = d, !.data = e]
    BY <1>2, Zenon DEF Tick
  <2> HIDE DEF d, e
  <2>2. store'[s].life = store[s].life /\ store'[s].msgs = store[s].msgs
    BY <1>1, <2>1 DEF SessionState
  <2> QED
    BY <2>2 DEF View
<1>3. CASE store' = store
  BY <1>3
<1> QED
  BY <1>2, <1>3, AroundLeaves

LEMMA ViewStep ==
  ASSUME NEW p \in Pollers, Pollers = {p},
         TypeInv, TypeInv', CtxLive, PollInv(p), ViewInv(p), [Next]_vars
  PROVE  ViewInv(p)'
<1> SUFFICES ASSUME NEW s \in Sessions PROVE View(store'[s]) = Pending(p, s)'
  BY DEF ViewInv
<1>1. /\ store \in [Sessions -> SessionState] /\ store[s] \in SessionState
      /\ poll[p].upd \in [Sessions -> Views] /\ poll[p].rem \in SUBSET Sessions
      /\ View(store[s]) = Pending(p, s)
  BY FieldsType DEF TypeInv, TypeOK, ViewInv
<1>2. ASSUME View(store'[s]) = View(store[s]),
             poll'[p].upd = poll[p].upd, poll'[p].rem = poll[p].rem, replica' = replica
      PROVE  View(store'[s]) = Pending(p, s)'
  BY <1>1, <1>2 DEF Pending
<1>3. CASE Around
  <2>1. poll' = poll /\ replica' = replica
    BY <1>3, AroundLeaves DEF sinkVars
  <2> QED
    BY <1>2, <1>3, <2>1, AroundView
<1>4. CASE Reads(p) \/ Return(p)
  BY <1>2, <1>4, ReadsKeep, ReturnKeeps DEF Keeps, coreVars, sinkVars
<1>5. CASE DiscoverFails(p) \/ FinishSource(p)
  <2>1. PICK new : RecordHealth(p, poll[p].src, new)
    BY <1>5, RecordsHealth, Zenon
  <2> QED
    BY <1>2, <2>1, HealthKeeps DEF sinkVars
<1>6. CASE Commits(p)
  <2>1. PICK st \in SessionState,
             type \in {"discovered", "updated", "resumed", "terminal"},
             from \in {"", "active", "terminal"} :
           /\ CommitOf(p, st, type)
           /\ store' = [store EXCEPT ![SessionAt(p)] = st]
           /\ poll'[p].upd = [poll[p].upd EXCEPT ![SessionAt(p)] = View(st)]
           /\ poll'[p].lcs =
                Append(poll[p].lcs, LifecycleEvent(type, SessionAt(p), from, st.life))
    BY <1>6, CommitKeeps, Zenon
  <2>2. /\ pc[p] = "commit" /\ poll'[p].rem = poll[p].rem /\ replica' = replica
    BY <1>6, CommitKeeps DEF sinkVars
  <2>3. poll[p].rem = {}
    BY <2>2 DEF PollInv
  <2>4. CASE s = SessionAt(p)
    <3>1. store'[s] = st /\ poll'[p].upd[s] = View(st)
      BY <1>1, <2>1, <2>4
    <3>2. st.life # ""
      BY <2>1 DEF CommitOf
    <3>3. View(st) # NoView
      BY <3>2, AbsentFields DEF View, NoView
    <3> QED
      BY <2>2, <2>3, <3>1, <3>3 DEF Pending
  <2>5. CASE s # SessionAt(p)
    <3>1. store'[s] = store[s] /\ poll'[p].upd[s] = poll[p].upd[s]
      BY <1>1, <2>1, <2>5
    <3> QED
      BY <1>1, <2>2, <3>1 DEF Pending
  <2> QED
    BY <2>4, <2>5
<1>7. CASE StaleSweep(p) \/ SubagentSweep(p)
  <2>1. PICK S \in SUBSET Sessions :
           /\ store' = [t \in Sessions |->
                 IF t \in S THEN [store[t] EXCEPT !.life = "terminal", !.done = 0]
                 ELSE store[t]]
           /\ poll'[p].upd = [t \in Sessions |->
                 IF t \in S THEN [View(store[t]) EXCEPT !.life = "terminal"]
                 ELSE poll[p].upd[t]]
    BY <1>7, TerminateKeeps, Zenon
  <2>2. /\ pc[p] \in {"source", "subagents"} /\ poll'[p].rem = poll[p].rem
        /\ replica' = replica
    BY <1>7, TerminateKeeps DEF sinkVars
  <2>3. poll[p].rem = {}
    BY <2>2 DEF PollInv
  <2>4. CASE s \in S
    <3>1. /\ store'[s] = [store[s] EXCEPT !.life = "terminal", !.done = 0]
          /\ poll'[p].upd[s] = [View(store[s]) EXCEPT !.life = "terminal"]
      BY <2>1, <2>4
    <3>2. store'[s].life = "terminal" /\ store'[s].msgs = store[s].msgs
      BY <1>1, <3>1 DEF SessionState
    <3>3. View(store'[s]) = [life |-> "terminal", msgs |-> store[s].msgs]
      BY <3>2, Zenon DEF View
    <3>4. poll'[p].upd[s] = [life |-> "terminal", msgs |-> store[s].msgs]
      <4>1. [[life |-> store[s].life, msgs |-> store[s].msgs] EXCEPT !.life = "terminal"]
              = [life |-> "terminal", msgs |-> store[s].msgs]
        OBVIOUS
      <4> QED
        BY <3>1, <4>1, Zenon DEF View
    <3>5. poll'[p].upd[s] # NoView
      <4>1. NoView.life = ""
        BY AbsentFields DEF View, NoView
      <4>2. poll'[p].upd[s].life = "terminal"
        BY <3>4
      <4> HIDE DEF NoView
      <4> QED
        BY <4>1, <4>2
    <3> QED
      BY <2>2, <2>3, <3>3, <3>4, <3>5 DEF Pending
  <2>5. CASE s \notin S
    <3>1. store'[s] = store[s] /\ poll'[p].upd[s] = poll[p].upd[s]
      BY <2>1, <2>5
    <3> QED
      BY <1>1, <2>2, <3>1 DEF Pending
  <2> QED
    BY <2>4, <2>5
<1>8. CASE RetentionSweep(p)
  <2>1. /\ pc[p] = "retention" /\ poll'[p].rem = ExpiredSessions
        /\ poll'[p].upd = poll[p].upd /\ replica' = replica
        /\ store'[s] = IF s \in ExpiredSessions THEN Absent ELSE store[s]
    BY <1>8, RetentionKeeps DEF sinkVars
  <2>2. poll[p].rem = {}
    BY <2>1 DEF PollInv
  <2> QED
    BY <1>1, <2>1, <2>2 DEF Pending, NoView
<1>9. CASE EmitLifecycle(p)
  <2>1. store' = store
    BY <1>9, EmitKeeps DEF coreVars
  <2> QED
    BY <1>2, <1>9, <2>1, EmitLifecycleKeeps
<1>10. CASE EmitHealth(p)
  <2>1. store' = store
    BY <1>10, EmitKeeps DEF coreVars
  <2> QED
    BY <1>2, <1>10, <2>1, EmitHealthKeeps
<1>11. CASE EmitDelta(p)
  <2>1. store' = store
    BY <1>11, EmitKeeps DEF coreVars
  <2>2. /\ poll'[p].upd[s] = NoView /\ poll'[p].rem = {}
        /\ replica'[s] = IF s \in poll[p].rem THEN NoView
                         ELSE IF s \in Updates(p) THEN poll[p].upd[s] ELSE replica[s]
    BY <1>11, EmitDeltaKeeps
  <2>3. s \in Updates(p) <=> poll[p].upd[s] # NoView
    BY DEF Updates
  <2> QED
    BY <1>1, <2>1, <2>2, <2>3 DEF Pending
<1> QED
  BY <1>3, <1>4, <1>5, <1>6, <1>7, <1>8, <1>9, <1>10, <1>11, SoleSteps, NothingAbandoned

\* With one goroutine polling and no call abandoned, a consumer that only applies
\* the deltas, updates first and removals after, holds between two polls what
\* Snapshot returns.
THEOREM ReplicaIsSnapshot ==
  ASSUME NEW p \in Pollers, Pollers = {p}, "cancel" \notin FaultKinds
  PROVE  Spec => []ReplicaMirrorsStore
<1>1. TypeInv /\ PollInv(p) /\ ViewInv(p) => ReplicaMirrorsStore
  <2> SUFFICES ASSUME TypeInv, PollInv(p), ViewInv(p), Quiet PROVE replica = Snapshot
    BY DEF ReplicaMirrorsStore
  <2>1. poll[p] = NewPoll
    BY DEF Quiet, PollInv
  <2>2. poll[p].rem = {} /\ \A s \in Sessions : poll[p].upd[s] = NoView
    BY <2>1 DEF NewPoll
  <2>3. \A s \in Sessions : replica[s] = View(store[s])
    BY <2>2 DEF ViewInv, Pending
  <2>4. replica \in [Sessions -> Views]
    BY DEF TypeInv, TypeOK
  <2> QED
    BY <2>3, <2>4 DEF Snapshot
<1>2. TypeInv /\ TypeInv' /\ PollInv(p) /\ [Next]_vars => PollInv(p)'
  BY PollStep
<1>3. TypeInv /\ TypeInv' /\ CtxLive /\ PollInv(p) /\ ViewInv(p) /\ [Next]_vars => ViewInv(p)'
  BY ViewStep
<1>4. TypeInv /\ CtxLive /\ [Next]_vars => CtxLive'
  BY CtxStep
<1>5. Init => PollInv(p) /\ ViewInv(p)
  BY PollInit, ViewInit
<1> QED
  BY TypeInit, TypeStep, CtxInit, <1>1, <1>2, <1>3, <1>4, <1>5, PTL DEF Spec

-----------------------------------------------------------------------------
(* Queues of lifecycle events *)

\* The moves of SessionLifecycle: from a state, to a state, announced by an event.
LifecycleMoves ==
  {<<"untracked", "active", "discovered">>, <<"active", "active", "updated">>,
   <<"active", "terminal", "terminal">>, <<"active", "terminal", "stale">>,
   <<"terminal", "active", "resumed">>, <<"removed", "active", "resumed">>,
   <<"terminal", "removed", "removed">>}

\* Event f may come next after event e about the same session.
Follows(e, f) == <<ToldState(e), ToldState(f), f.type>> \in LifecycleMoves

\* The positions in queue q of what concerns session s.
Of(q, s) == {i \in DOMAIN q : q[i].id = s}

\* Once the queue is delivered to a sink whose last event about s is e, the last
\* one says that s is in state st.
Says(q, e, s, st) ==
  /\ Of(q, s) = {} => ToldState(e) = st
  /\ \A i \in Of(q, s) : (\A j \in Of(q, s) : j <= i) => ToldState(q[i]) = st

\* Delivered to that sink, the queue makes s move as a session may.
Chained(q, e, s) ==
  /\ \A i \in Of(q, s) : (\A j \in Of(q, s) : i <= j) => Follows(e, q[i])
  /\ \A i, j \in Of(q, s) :
       i < j /\ (\A k \in Of(q, s) : k <= i \/ j <= k) => Follows(q[i], q[j])

LEMMA OfConcat ==
  ASSUME NEW q \in Seq(LifecycleEvents), NEW r \in Seq(LifecycleEvents), NEW s
  PROVE  /\ Len(q) \in Nat
         /\ \A i \in Of(q, s) : i \in 1..Len(q) /\ (q \o r)[i] = q[i]
         /\ \A k \in Of(r, s) : k \in Nat /\ 1 <= k /\ (q \o r)[Len(q) + k] = r[k]
         /\ Of(q \o r, s) = Of(q, s) \cup {Len(q) + k : k \in Of(r, s)}
<1> DEFINE t == q \o r
           n == Len(q)
           m == Len(r)
<1>1. /\ n \in Nat /\ m \in Nat /\ DOMAIN q = 1..n /\ DOMAIN r = 1..m
  BY LenProperties
<1>2. /\ t \in Seq(LifecycleEvents) /\ Len(t) = n + m
      /\ \A i \in 1..n + m : t[i] = IF i <= n THEN q[i] ELSE r[i - n]
  BY ConcatProperties
<1>3. DOMAIN t = 1..n + m
  BY <1>2, LenProperties
<1> HIDE DEF t, n, m
<1>4. \A i \in 1..n : i \in 1..n + m /\ t[i] = q[i]
  BY <1>1, <1>2
<1>5. \A k \in 1..m : n + k \in 1..n + m /\ t[n + k] = r[k]
  <2> SUFFICES ASSUME NEW k \in 1..m PROVE n + k \in 1..n + m /\ t[n + k] = r[k]
    OBVIOUS
  <2>1. n + k \in 1..n + m /\ ~(n + k <= n) /\ (n + k) - n = k
    BY <1>1
  <2> QED
    BY <1>2, <2>1
<1>6. \A i \in 1..n + m : i \in 1..n \/ \E k \in 1..m : i = n + k
  <2> SUFFICES ASSUME NEW i \in 1..n + m, i \notin 1..n PROVE \E k \in 1..m : i = n + k
    OBVIOUS
  <2>1. i - n \in 1..m /\ i = n + (i - n)
    BY <1>1
  <2> QED
    BY <2>1
<1>7. Of(t, s) = Of(q, s) \cup {n + k : k \in Of(r, s)}
  <2>1. ASSUME NEW i \in Of(t, s) PROVE i \in Of(q, s) \cup {n + k : k \in Of(r, s)}
    <3>1. i \in 1..n + m /\ t[i].id = s
      BY <1>3, <2>1 DEF Of
    <3>2. CASE i \in 1..n
      BY <1>1, <1>4, <3>1, <3>2 DEF Of
    <3>3. CASE \E k \in 1..m : i = n + k
      BY <1>1, <1>5, <3>1, <3>3 DEF Of
    <3> QED
      BY <1>6, <3>1, <3>2, <3>3
  <2>2. Of(q, s) \subseteq Of(t, s)
    BY <1>1, <1>3, <1>4 DEF Of
  <2>3. \A k \in Of(r, s) : n + k \in Of(t, s)
    BY <1>1, <1>3, <1>5 DEF Of
  <2> QED
    BY <2>1, <2>2, <2>3
<1>8. /\ \A i \in Of(q, s) : i \in 1..n /\ t[i] = q[i]
      /\ \A k \in Of(r, s) : k \in Nat /\ 1 <= k /\ t[n + k] = r[k]
  BY <1>1, <1>4, <1>5 DEF Of
<1> QED
  BY <1>1, <1>7, <1>8, Zenon DEF t, n

\* A group of events that does not concern s changes nothing for s.
LEMMA QueueOthers ==
  ASSUME NEW q \in Seq(LifecycleEvents), NEW r \in Seq(LifecycleEvents), NEW s,
         NEW e, NEW st, Of(r, s) = {}, Says(q, e, s, st), Chained(q, e, s)
  PROVE  Says(q \o r, e, s, st) /\ Chained(q \o r, e, s)
<1> DEFINE t == q \o r
           P == Of(q, s)
<1>1. Of(t, s) = P /\ \A i \in P : t[i] = q[i]
  <2> DEFINE R == {Len(q) + k : k \in Of(r, s)}
  <2>1. \A i \in P : t[i] = q[i]
    BY OfConcat
  <2>2. R = {}
    OBVIOUS
  <2>3. Of(t, s) = P \cup R
    BY OfConcat, Zenon
  <2> HIDE DEF t, P, R
  <2> QED
    BY <2>1, <2>2, <2>3
<1>2. /\ P = {} => ToldState(e) = st
      /\ \A i \in P : (\A j \in P : j <= i) => ToldState(q[i]) = st
  BY DEF Says
<1>3. /\ \A i \in P : (\A j \in P : i <= j) => Follows(e, q[i])
      /\ \A i, j \in P : i < j /\ (\A c \in P : c <= i \/ j <= c) => Follows(q[i], q[j])
  BY DEF Chained
<1> HIDE DEF t, P
<1>4. Says(t, e, s, st)
  BY <1>1, <1>2 DEF Says
<1>5. Chained(t, e, s)
  BY <1>1, <1>3 DEF Chained
<1> QED
  BY <1>4, <1>5, Zenon DEF t

\* A group of events with one about s, which may follow, tells its state.
LEMMA QueueOne ==
  ASSUME NEW q \in Seq(LifecycleEvents), NEW r \in Seq(LifecycleEvents), NEW s,
         NEW e, NEW st, NEW k, Of(r, s) = {k}, Says(q, e, s, st), Chained(q, e, s),
         <<st, ToldState(r[k]), r[k].type>> \in LifecycleMoves
  PROVE  Says(q \o r, e, s, ToldState(r[k])) /\ Chained(q \o r, e, s)
<1> DEFINE t == q \o r
           n == Len(q)
           x == n + k
           P == Of(q, s)
           f == r[k]
<1>1. /\ n \in Nat /\ k \in Nat /\ 1 <= k
      /\ \A i \in P : i \in 1..n /\ t[i] = q[i]
      /\ t[x] = f /\ Of(t, s) = P \cup {x}
  BY OfConcat
<1>2. \A d : ToldState(d) = st => Follows(d, f)
  BY DEF Follows
<1>3. /\ P = {} => ToldState(e) = st
      /\ \A i \in P : (\A j \in P : j <= i) => ToldState(q[i]) = st
  BY DEF Says
<1>4. /\ \A i \in P : (\A j \in P : i <= j) => Follows(e, q[i])
      /\ \A i, j \in P : i < j /\ (\A c \in P : c <= i \/ j <= c) => Follows(q[i], q[j])
  BY DEF Chained
<1> HIDE DEF t, n, P, f
<1>5. x \in Nat /\ \A i \in P : i \in Nat /\ i < x
  BY <1>1
<1> HIDE DEF x
<1>6. Says(t, e, s, ToldState(f))
  <2>1. \A i \in P : ~(x <= i)
    BY <1>5
  <2> QED
    BY <1>1, <2>1 DEF Says
<1>7. ASSUME NEW i \in Of(t, s), \A j \in Of(t, s) : i <= j
      PROVE  Follows(e, t[i])
  <2>1. CASE i \in P
    BY <1>1, <1>4, <1>7, <2>1
  <2>2. CASE i = x
    <3>1. P = {}
      BY <1>1, <1>5, <1>7, <2>2
    <3> QED
      BY <1>1, <1>2, <1>3, <2>2, <3>1
  <2> QED
    BY <1>1, <2>1, <2>2
<1>8. ASSUME NEW i \in Of(t, s), NEW j \in Of(t, s), i < j,
             \A c \in Of(t, s) : c <= i \/ j <= c
      PROVE  Follows(t[i], t[j])
  <2>1. CASE i = x
    BY <1>1, <1>5, <1>8, <2>1
  <2>2. CASE i \in P /\ j \in P
    BY <1>1, <1>4, <1>8, <2>2
  <2>3. CASE i \in P /\ j = x
    <3>1. \A c \in P : c <= i
      BY <1>1, <1>5, <1>8, <2>3
    <3> QED
      BY <1>1, <1>2, <1>3, <2>3, <3>1
  <2> QED
    BY <1>1, <2>1, <2>2, <2>3
<1>9. Chained(t, e, s)
  BY <1>7, <1>8 DEF Chained
<1> QED
  BY <1>6, <1>9, Zenon DEF t, f

LEMMA OfTail ==
  ASSUME NEW q \in Seq(LifecycleEvents), q # << >>, NEW s
  PROVE  /\ Head(q) = q[1] /\ Head(q) \in LifecycleEvents
         /\ 1 \in Of(q, s) <=> Head(q).id = s
         /\ \A i \in Of(q, s) : i \in Nat /\ 1 <= i
         /\ \A i \in Of(Tail(q), s) : i \in Nat /\ 1 <= i /\ Tail(q)[i] = q[i + 1]
         /\ \A i \in Nat \ {0} : i \in Of(Tail(q), s) <=> i + 1 \in Of(q, s)
<1> DEFINE t == Tail(q)
           n == Len(q)
<1>1. /\ n \in Nat /\ n # 0 /\ DOMAIN q = 1..n
  BY LenProperties, EmptySeq
<1>2. /\ Head(q) \in LifecycleEvents /\ t \in Seq(LifecycleEvents) /\ Len(t) = n - 1
      /\ \A i \in 1..n - 1 : t[i] = q[i + 1]
  BY HeadTailProperties
<1>3. DOMAIN t = 1..n - 1 /\ Head(q) = q[1]
  BY <1>2, LenProperties
<1> HIDE DEF t, n
<1>4. /\ 1 \in Of(q, s) <=> q[1].id = s
      /\ \A i \in Of(q, s) : i \in Nat /\ 1 <= i
      /\ \A i \in Of(t, s) : i \in Nat /\ 1 <= i /\ t[i] = q[i + 1]
  BY <1>1, <1>2, <1>3 DEF Of
<1>5. \A i \in Nat \ {0} : i \in Of(t, s) <=> i + 1 \in Of(q, s)
  <2> SUFFICES ASSUME NEW i \in Nat \ {0} PROVE i \in Of(t, s) <=> i + 1 \in Of(q, s)
    OBVIOUS
  <2>1. i \in 1..n - 1 <=> i + 1 \in 1..n
    BY <1>1
  <2> QED
    BY <1>1, <1>2, <1>3, <2>1 DEF Of
<1> QED
  BY <1>2, <1>3, <1>4, <1>5, Zenon DEF t

\* Delivering the head of the queue: if it is about s it may follow what the sink
\* knows of s, and the rest of the queue follows it; if not, nothing changes.
LEMMA QueuePop ==
  ASSUME NEW q \in Seq(LifecycleEvents), q # << >>, NEW s, NEW e, NEW st,
         Says(q, e, s, st), Chained(q, e, s)
  PROVE  LET d == IF Head(q).id = s THEN Head(q) ELSE e
         IN  /\ Head(q).id = s => Follows(e, Head(q))
             /\ Says(Tail(q), d, s, st) /\ Chained(Tail(q), d, s)
<1> DEFINE t == Tail(q)
           P == Of(q, s)
           T == Of(t, s)
           h == Head(q)
           d == IF h.id = s THEN h ELSE e
<1>1. /\ h = q[1]
      /\ 1 \in P <=> h.id = s
      /\ \A i \in P : i \in Nat /\ 1 <= i
      /\ \A i \in T : i \in Nat /\ 1 <= i /\ t[i] = q[i + 1]
      /\ \A i \in Nat \ {0} : i \in T <=> i + 1 \in P
  BY OfTail
<1>2. /\ P = {} => ToldState(e) = st
      /\ \A i \in P : (\A j \in P : j <= i) => ToldState(q[i]) = st
  BY DEF Says
<1>3. /\ \A i \in P : (\A j \in P : i <= j) => Follows(e, q[i])
      /\ \A i, j \in P : i < j /\ (\A c \in P : c <= i \/ j <= c) => Follows(q[i], q[j])
  BY DEF Chained
<1> HIDE DEF t, P, T, h
<1>4. \A i \in P : i = 1 \/ \E j \in T : i = j + 1
  <2> SUFFICES ASSUME NEW i \in P, i # 1 PROVE \E j \in T : i = j + 1
    OBVIOUS
  <2>0. i \in Nat /\ 1 <= i
    BY <1>1, Zenon
  <2>1. i - 1 \in Nat \ {0} /\ i = (i - 1) + 1
    BY <2>0
  <2>2. i - 1 \in T
    BY <1>1, <2>1
  <2> QED
    BY <2>1, <2>2
<1>5. \A i \in T : i + 1 \in P /\ i \in Nat \ {0}
  BY <1>1
<1>6. h.id = s => Follows(e, h)
  BY <1>1, <1>3
<1>7. T = {} => ToldState(d) = st
  <2> SUFFICES ASSUME T = {} PROVE ToldState(d) = st
    OBVIOUS
  <2>1. \A i \in P : i = 1
    BY <1>4
  <2>2. CASE h.id = s
    <3>1. 1 \in P /\ \A j \in P : j <= 1
      BY <1>1, <2>1, <2>2
    <3>2. ToldState(q[1]) = st
      BY <1>2, <3>1
    <3> QED
      BY <1>1, <2>2, <3>2
  <2>3. CASE h.id # s
    <3>1. P = {}
      BY <1>1, <2>1, <2>3
    <3> QED
      BY <1>2, <2>3, <3>1
  <2> QED
    BY <2>2, <2>3
<1>8. ASSUME NEW i \in T, \A j \in T : j <= i
      PROVE  ToldState(t[i]) = st
  <2>1. ASSUME NEW j \in P PROVE j <= i + 1
    <3>1. i \in Nat
      BY <1>5
    <3>2. CASE j = 1
      BY <3>1, <3>2
    <3>3. ASSUME NEW b \in T, j = b + 1 PROVE j <= i + 1
      <4>1. b <= i /\ b \in Nat
        BY <1>5, <1>8
      <4> QED
        BY <3>1, <3>3, <4>1
    <3> QED
      BY <1>4, <3>2, <3>3
  <2>2. ToldState(q[i + 1]) = st
    BY <1>2, <1>5, <2>1
  <2> QED
    BY <1>1, <2>2
<1>9. ASSUME NEW i \in T, \A j \in T : i <= j
      PROVE  Follows(d, t[i])
  <2>1. i + 1 \in P /\ t[i] = q[i + 1] /\ i \in Nat /\ 1 <= i
    BY <1>1, <1>5
  <2>2. ASSUME NEW c \in P PROVE c = 1 \/ i + 1 <= c
    <3>1. ASSUME NEW b \in T, c = b + 1 PROVE i + 1 <= c
      <4>1. i <= b /\ b \in Nat
        BY <1>5, <1>9
      <4> QED
        BY <2>1, <3>1, <4>1
    <3> QED
      BY <1>4, <3>1
  <2>3. CASE h.id = s
    <3>1. 1 \in P /\ 1 < i + 1
      BY <1>1, <2>1, <2>3
    <3>2. \A c \in P : c <= 1 \/ i + 1 <= c
      BY <2>2
    <3>3. Follows(q[1], q[i + 1])
      BY <1>3, <2>1, <3>1, <3>2
    <3> QED
      BY <1>1, <2>1, <2>3, <3>3
  <2>4. CASE h.id # s
    <3>1. \A c \in P : i + 1 <= c
      BY <1>1, <2>2, <2>4
    <3>2. Follows(e, q[i + 1])
      BY <1>3, <2>1, <3>1
    <3> QED
      BY <2>1, <2>4, <3>2
  <2> QED
    BY <2>3, <2>4
<1>10. ASSUME NEW i \in T, NEW j \in T, i < j, \A c \in T : c <= i \/ j <= c
       PROVE  Follows(t[i], t[j])
  <2>1. /\ i + 1 \in P /\ j + 1 \in P /\ i + 1 < j + 1
        /\ t[i] = q[i + 1] /\ t[j] = q[j + 1]
    BY <1>1, <1>5, <1>10
  <2>2. ASSUME NEW c \in P PROVE c <= i + 1 \/ j + 1 <= c
    <3>1. i \in Nat /\ j \in Nat
      BY <1>5
    <3>2. CASE c = 1
      BY <3>1, <3>2
    <3>3. ASSUME NEW b \in T, c = b + 1 PROVE c <= i + 1 \/ j + 1 <= c
      <4>1. (b <= i \/ j <= b) /\ b \in Nat
        BY <1>5, <1>10
      <4> QED
        BY <3>1, <3>3, <4>1
    <3> QED
      BY <1>4, <3>2, <3>3
  <2>3. Follows(q[i + 1], q[j + 1])
    BY <1>3, <2>1, <2>2
  <2> QED
    BY <2>1, <2>3
<1> HIDE DEF d
<1>11. Says(t, d, s, st) /\ Chained(t, d, s)
  BY <1>7, <1>8, <1>9, <1>10, Zenon DEF Says, Chained, T
<1> QED
  BY <1>6, <1>11, Zenon DEF d, h, t

\* A queue that grows by one event.
LEMMA OneEvent ==
  ASSUME NEW q \in Seq(LifecycleEvents), NEW f \in LifecycleEvents, NEW s
  PROVE  /\ <<f>> \in Seq(LifecycleEvents) /\ Append(q, f) = q \o <<f>>
         /\ f.id # s => Of(<<f>>, s) = {}
         /\ f.id = s => Of(<<f>>, s) = {1} /\ <<f>>[1] = f
<1>1. <<f>> \in Seq(LifecycleEvents) /\ Len(<<f>>) = 1 /\ <<f>>[1] = f
  OBVIOUS
<1>2. DOMAIN <<f>> = {1}
  OBVIOUS
<1>3. Append(q, f) = q \o <<f>>
  <2>1. /\ Append(q, f) \in Seq(LifecycleEvents) /\ Len(Append(q, f)) = Len(q) + 1
        /\ \A i \in 1..Len(q) : Append(q, f)[i] = q[i]
        /\ Append(q, f)[Len(q) + 1] = f
    BY AppendProperties
  <2>2. /\ q \o <<f>> \in Seq(LifecycleEvents) /\ Len(q \o <<f>>) = Len(q) + 1
        /\ \A i \in 1..Len(q) + 1 :
             (q \o <<f>>)[i] = IF i <= Len(q) THEN q[i] ELSE <<f>>[i - Len(q)]
    BY <1>1, ConcatProperties
  <2> DEFINE a == Append(q, f)
             b == q \o <<f>>
             g == <<f>>
             n == Len(q)
  <2>3. n \in Nat
    BY LenProperties
  <2>4. /\ a \in Seq(LifecycleEvents) /\ b \in Seq(LifecycleEvents)
        /\ Len(a) = n + 1 /\ Len(b) = n + 1
        /\ \A i \in 1..n : a[i] = q[i]
        /\ a[n + 1] = f /\ g[1] = f
        /\ \A i \in 1..n + 1 : b[i] = IF i <= n THEN q[i] ELSE g[i - n]
    BY <1>1, <2>1, <2>2
  <2> HIDE DEF a, b, g, n
  <2>5. \A i \in 1..n + 1 : a[i] = b[i]
    <3> SUFFICES ASSUME NEW i \in 1..n + 1 PROVE a[i] = b[i]
      OBVIOUS
    <3>1. CASE i \in 1..n
      BY <2>3, <2>4, <3>1
    <3>2. CASE i = n + 1
      <4>1. ~(i <= n) /\ i - n = 1
        BY <2>3, <3>2
      <4> QED
        BY <2>4, <3>2, <4>1
    <3> QED
      BY <2>3, <3>1, <3>2
  <2>6. a = b
    BY <2>4, <2>5, SeqEqual
  <2> QED
    BY <2>6 DEF a, b
<1> QED
  BY <1>1, <1>2, <1>3 DEF Of

\* Queue q has one event about s, and it is f.
Single(q, s, f) == \E k : Of(q, s) = {k} /\ q[k] = f

\* A sweep collects one event for each session of its set, and no other.
LEMMA SweepOf ==
  ASSUME NEW S \in SUBSET Sessions, NEW order \in SetToSeqs(S),
         NEW type, NEW from, NEW to, NEW s
  PROVE  /\ s \notin S => Of(SweepEvents(type, order, from, to), s) = {}
         /\ s \in S => Single(SweepEvents(type, order, from, to), s,
                               LifecycleEvent(type, s, from, to))
<1> DEFINE r == SweepEvents(type, order, from, to)
<1>1. IsFiniteSet(S)
  BY DataAssumption, FS_Subset
<1>2. PICK n \in Nat : n = Cardinality(S)
  BY <1>1, FS_CardinalityType
<1>3. order \in [1..n -> S] /\ \A i, j \in 1..n : i # j => order[i] # order[j]
  BY <1>2 DEF SetToSeqs
<1>4. order \in Injection(1..n, S)
  BY <1>3 DEF Injection, IsInjective
<1>5. IsFiniteSet(1..n) /\ Cardinality(1..n) = n
  BY FS_Interval
<1>6. order \in Surjection(1..n, S)
  BY <1>1, <1>2, <1>4, <1>5, FS_Injection
<1>7. \A t \in S : \E k \in 1..n : order[k] = t
  BY <1>6 DEF Surjection
<1>8. DOMAIN r = 1..n /\ \A i \in 1..n : r[i] = LifecycleEvent(type, order[i], from, to)
  BY <1>3 DEF SweepEvents
<1>9. \A i \in 1..n : r[i].id = order[i]
  BY <1>8 DEF LifecycleEvent
<1> HIDE DEF r
<1>10. s \notin S => Of(r, s) = {}
  BY <1>3, <1>8, <1>9 DEF Of
<1>11. ASSUME s \in S
       PROVE  Single(r, s, LifecycleEvent(type, s, from, to))
  <2>1. PICK k \in 1..n : order[k] = s
    BY <1>7, <1>11
  <2>2. Of(r, s) = {k}
    BY <1>3, <1>8, <1>9, <2>1 DEF Of
  <2> QED
    BY <1>8, <2>1, <2>2 DEF Single
<1> QED
  BY <1>10, <1>11, Zenon DEF r

-----------------------------------------------------------------------------
(* Lifecycle events: what the sink is told *)

\* Where each kind of step takes the sessions.
LEMMA SameState ==
  ASSUME NEW s \in Sessions, store'[s] = store[s], s \in removed' <=> s \in removed
  PROVE  StateOf(s)' = StateOf(s)
BY DEF StateOf, Tracked

LEMMA CommitMoves ==
  ASSUME TypeInv, NEW p \in Pollers, SessionAt(p) \in Sessions, NEW s \in Sessions,
         NEW st \in SessionState, NEW type, CommitOf(p, st, type),
         store' = [store EXCEPT ![SessionAt(p)] = st]
  PROVE  IF s = SessionAt(p)
           THEN StateOf(s)' = st.life /\ <<StateOf(s), st.life, type>> \in LifecycleMoves
           ELSE StateOf(s)' = StateOf(s)
<1>1. store \in [Sessions -> SessionState]
  BY DEF TypeInv, TypeOK
<1>2. CASE s = SessionAt(p)
  <2>1. store'[s] = st /\ store[s] = Existing(p)
    BY <1>1, <1>2 DEF Existing
  <2>2. StateOf(s)' = st.life
    BY <2>1 DEF StateOf, Tracked, CommitOf
  <2>3. <<StateOf(s), st.life, type>> \in LifecycleMoves
    BY <1>2, <2>1 DEF StateOf, Tracked, CommitOf, LifecycleMoves
  <2> QED
    BY <1>2, <2>2, <2>3
<1>3. CASE s # SessionAt(p)
  <2>1. store'[s] = store[s] /\ (s \in removed' <=> s \in removed)
    BY <1>1, <1>3 DEF CommitOf
  <2>2. StateOf(s)' = StateOf(s)
    BY <2>1, SameState, Zenon
  <2> QED
    BY <1>3, <2>2
<1> QED
  BY <1>2, <1>3

LEMMA TerminateMoves ==
  ASSUME TypeInv, NEW S \in SUBSET Sessions, NEW s \in Sessions, \A t \in S : Active(t),
         store' = [t \in Sessions |->
           IF t \in S THEN [store[t] EXCEPT !.life = "terminal", !.done = 0] ELSE store[t]],
         UNCHANGED removed
  PROVE  IF s \in S THEN StateOf(s) = "active" /\ StateOf(s)' = "terminal"
         ELSE StateOf(s)' = StateOf(s)
<1>1. store \in [Sessions -> SessionState] /\ store[s] \in SessionState
  BY DEF TypeInv, TypeOK
<1>2. CASE s \in S
  <2>1. store'[s] = [store[s] EXCEPT !.life = "terminal", !.done = 0]
    BY <1>2
  <2>2. store'[s].life = "terminal" /\ store[s].life = "active"
    BY <1>1, <1>2, <2>1 DEF SessionState, Active
  <2> QED
    BY <1>2, <2>2 DEF StateOf, Tracked
<1>3. CASE s \notin S
  <2>1. store'[s] = store[s] /\ removed' = removed
    BY <1>3
  <2> QED
    BY <1>3, <2>1 DEF StateOf, Tracked
<1> QED
  BY <1>2, <1>3

LEMMA RetentionMoves ==
  ASSUME TypeInv, NEW p \in Pollers, RetentionSweep(p), NEW s \in Sessions
  PROVE  IF s \in ExpiredSessions THEN StateOf(s) = "terminal" /\ StateOf(s)' = "removed"
         ELSE StateOf(s)' = StateOf(s)
<1>1. /\ store'[s] = IF s \in ExpiredSessions THEN Absent ELSE store[s]
      /\ s \in removed' <=> s \in removed \/ s \in ExpiredSessions
  BY RetentionKeeps
<1>2. CASE s \in ExpiredSessions
  <2>1. store[s].life = "terminal" /\ store'[s].life = "" /\ s \in removed'
    BY <1>1, <1>2, AbsentFields DEF ExpiredSessions
  <2> QED
    BY <1>2, <2>1 DEF StateOf, Tracked
<1>3. CASE s \notin ExpiredSessions
  BY <1>1, <1>3 DEF StateOf, Tracked
<1> QED
  BY <1>2, <1>3

LEMMA AroundState ==
  ASSUME TypeInv, Around, NEW s \in Sessions PROVE StateOf(s)' = StateOf(s)
<1>1. removed' = removed
  BY AroundLeaves
<1>2. store'[s].life = store[s].life
  BY AroundLeaves, TickAges
<1> QED
  BY <1>1, <1>2 DEF StateOf, Tracked

\* What the sink knows of s and what is queued for it tell the history of s up to
\* the state s is in.
Told(q, e, s, st) == Says(q, e, s, st) /\ Chained(q, e, s)

EventInv(p) ==
  \A s \in Sessions : /\ ToldState(seen[s]) \in Delivered!States
                      /\ Told(poll[p].lcs, seen[s], s, StateOf(s))

LEMMA EventInit == ASSUME Init, NEW p \in Pollers PROVE EventInv(p)
<1> SUFFICES ASSUME NEW s \in Sessions
             PROVE  /\ ToldState(seen[s]) \in Delivered!States
                    /\ Told(poll[p].lcs, seen[s], s, StateOf(s))
  BY DEF EventInv
<1>1. ToldState(seen[s]) = "untracked"
  BY DEF Init, NoEvent, ToldState
<1>2. StateOf(s) = "untracked"
  BY StoreInit, AbsentFields DEF StateOf, Tracked
<1>3. poll[p].lcs = << >>
  BY DEF Init, NewPoll
<1>4. Of(<< >>, s) = {}
  BY DEF Of
<1> QED
  BY <1>1, <1>2, <1>3, <1>4 DEF Told, Says, Chained, Delivered!States

LEMMA EventStep ==
  ASSUME NEW p \in Pollers, Pollers = {p},
         TypeInv, TypeInv', ~ReturnErr(p), EventInv(p), [Next]_vars
  PROVE  /\ EventInv(p)'
         /\ \A s \in Sessions : seen'[s] = seen[s] \/ Follows(seen[s], seen'[s])
<1> SUFFICES ASSUME NEW s \in Sessions
             PROVE  /\ ToldState(seen'[s]) \in Delivered!States
                    /\ Told(poll[p].lcs, seen[s], s, StateOf(s))'
                    /\ seen'[s] = seen[s] \/ Follows(seen[s], seen'[s])
  BY DEF EventInv
<1> DEFINE q == poll[p].lcs
           e == seen[s]
           Goal == /\ ToldState(seen'[s]) \in Delivered!States
                   /\ Told(poll[p].lcs, seen[s], s, StateOf(s))'
                   /\ seen'[s] = seen[s] \/ Follows(seen[s], seen'[s])
<1>1. /\ q \in Seq(LifecycleEvents) /\ seen \in [Sessions -> LifecycleEvents \cup {NoEvent}]
      /\ ToldState(e) \in Delivered!States
      /\ Says(q, e, s, StateOf(s)) /\ Chained(q, e, s)
  BY FieldsType DEF TypeInv, TypeOK, EventInv, Told
<1>2. ASSUME seen' = seen, NEW m, poll'[p].lcs = m, NEW st, StateOf(s)' = st,
             Says(m, e, s, st), Chained(m, e, s)
      PROVE  Goal
  BY <1>1, <1>2 DEF Told
<1>3. ASSUME seen' = seen, poll'[p].lcs = q, StateOf(s)' = StateOf(s)
      PROVE  Goal
  BY <1>1, <1>3 DEF Told
<1>4. CASE Around
  BY <1>3, <1>4, AroundLeaves, AroundState DEF sinkVars
<1>5. CASE Reads(p) \/ Return(p)
  <2>1. Keeps(poll[p], poll'[p]) /\ UNCHANGED <<coreVars, sinkVars>>
    BY <1>5, ReadsKeep, ReturnKeeps
  <2>2. StateOf(s)' = StateOf(s)
    BY <2>1, SameState DEF coreVars
  <2> QED
    BY <1>3, <2>1, <2>2 DEF Keeps, sinkVars
<1>6. CASE DiscoverFails(p) \/ FinishSource(p)
  <2>1. PICK new : RecordHealth(p, poll[p].src, new)
    BY <1>6, RecordsHealth, Zenon
  <2>2. /\ UNCHANGED <<store, removed, sinkVars>> /\ poll'[p].lcs = poll[p].lcs
    BY <2>1, HealthKeeps
  <2>3. StateOf(s)' = StateOf(s)
    BY <2>2, SameState
  <2> QED
    BY <1>3, <2>2, <2>3 DEF sinkVars
<1>7. CASE Commits(p)
  <2>1. PICK st \in SessionState,
             type \in {"discovered", "updated", "resumed", "terminal"},
             from \in {"", "active", "terminal"} :
           /\ CommitOf(p, st, type)
           /\ store' = [store EXCEPT ![SessionAt(p)] = st]
           /\ poll'[p].upd = [poll[p].upd EXCEPT ![SessionAt(p)] = View(st)]
           /\ poll'[p].lcs =
                Append(poll[p].lcs, LifecycleEvent(type, SessionAt(p), from, st.life))
    BY <1>7, CommitKeeps, Zenon
  <2>2. SessionAt(p) \in Sessions /\ seen' = seen
    BY <1>7, CommitKeeps DEF sinkVars
  <2> DEFINE f == LifecycleEvent(type, SessionAt(p), from, st.life)
  <2>3. f \in LifecycleEvents
    BY <2>2 DEF LifecycleEvent, LifecycleEvents, SessionState
  <2>4. f.id = SessionAt(p) /\ f.type = type /\ ToldState(f) = st.life
    BY DEF LifecycleEvent, ToldState
  <2>5. IF s = SessionAt(p)
           THEN StateOf(s)' = st.life /\ <<StateOf(s), st.life, type>> \in LifecycleMoves
           ELSE StateOf(s)' = StateOf(s)
    BY <2>1, <2>2, CommitMoves, Zenon
  <2>6. PICK g \in LifecycleEvents : g = f
    BY <2>3
  <2>7. PICK x \in Seq(LifecycleEvents), d \in {e}, a \in {StateOf(s)} :
          x = q /\ d = e /\ a = StateOf(s)
    BY <1>1
  <2>8. poll'[p].lcs = Append(x, g)
    BY <2>1, <2>6, <2>7, Zenon
  <2>9. g.id = SessionAt(p) /\ g.type = type /\ ToldState(g) = st.life
    BY <2>4, <2>6, Zenon
  <2> HIDE DEF q, e, f
  <2>10. Says(x, d, s, a) /\ Chained(x, d, s)
    BY <1>1, <2>7
  <2>11. /\ <<g>> \in Seq(LifecycleEvents) /\ Append(x, g) = x \o <<g>>
         /\ g.id # s => Of(<<g>>, s) = {}
         /\ g.id = s => Of(<<g>>, s) = {1} /\ <<g>>[1] = g
    BY OneEvent
  <2>12. poll'[p].lcs = x \o <<g>>
    BY <2>8, <2>11, Zenon
  <2>13. CASE s = SessionAt(p)
    <3>1. Of(<<g>>, s) = {1} /\ <<g>>[1] = g
      BY <2>9, <2>11, <2>13, Zenon
    <3> DEFINE r == <<g>>
    <3>2. r \in Seq(LifecycleEvents) /\ Of(r, s) = {1} /\ r[1] = g
      BY <2>11, <3>1, Zenon
    <3> HIDE DEF r
    <3>3. <<a, ToldState(r[1]), r[1].type>> \in LifecycleMoves
      BY <2>5, <2>7, <2>9, <2>13, <3>2, Zenon
    <3>4. Says(x \o r, d, s, ToldState(r[1])) /\ Chained(x \o r, d, s)
      BY <2>10, <3>2, <3>3, QueueOne, Zenon
    <3>5. StateOf(s)' = ToldState(r[1])
      BY <2>5, <2>9, <2>13, <3>2, Zenon
    <3>6. poll'[p].lcs = x \o r
      BY <2>12, Zenon DEF r
    <3> QED
      BY <1>2, <2>2, <2>7, <3>4, <3>5, <3>6, Zenon
  <2>14. CASE s # SessionAt(p)
    <3> DEFINE r == <<g>>
    <3>1. r \in Seq(LifecycleEvents) /\ Of(r, s) = {}
      BY <2>9, <2>11, <2>14, Zenon
    <3>2. poll'[p].lcs = x \o r
      BY <2>12, Zenon
    <3> HIDE DEF r
    <3>3. Says(x \o r, d, s, a) /\ Chained(x \o r, d, s)
      BY <2>10, <3>1, QueueOthers, Zenon
    <3>4. StateOf(s)' = a
      BY <2>5, <2>7, <2>14, Zenon
    <3> QED
      BY <1>2, <2>2, <2>7, <3>2, <3>3, <3>4, Zenon
  <2> QED
    BY <2>13, <2>14
\* A sweep of the sessions in S, each announced by an event of the given type.
<1>8. ASSUME NEW S \in SUBSET Sessions, NEW order \in SetToSeqs(S), NEW from, NEW to,
             NEW type \in {"stale", "terminal", "removed"}, NEW st,
             SweepEvents(type, order, from, to) \in Seq(LifecycleEvents),
             seen' = seen, poll'[p].lcs = q \o SweepEvents(type, order, from, to),
             ToldState(LifecycleEvent(type, s, from, to)) = st,
             IF s \in S THEN StateOf(s)' = st /\ <<StateOf(s), st, type>> \in LifecycleMoves
             ELSE StateOf(s)' = StateOf(s)
      PROVE  Goal
  <2>1. PICK x \in Seq(LifecycleEvents), d \in {e}, a \in {StateOf(s)} :
          x = q /\ d = e /\ a = StateOf(s)
    BY <1>1
  <2> DEFINE r == SweepEvents(type, order, from, to)
  <2>7. r \in Seq(LifecycleEvents)
    BY <1>8
  <2>2. /\ s \notin S => Of(r, s) = {}
        /\ s \in S => Single(r, s, LifecycleEvent(type, s, from, to))
    BY SweepOf, Zenon
  <2>3. poll'[p].lcs = x \o r
    BY <1>8, <2>1, Zenon
  <2> HIDE DEF r
  <2>4. Says(x, d, s, a) /\ Chained(x, d, s)
    BY <1>1, <2>1, Zenon
  <2>5. CASE s \in S
    <3>1. PICK k : Of(r, s) = {k} /\ r[k] = LifecycleEvent(type, s, from, to)
      BY <2>2, <2>5 DEF Single
    <3>2. ToldState(r[k]) = st /\ r[k].type = type
      BY <1>8, <3>1 DEF LifecycleEvent
    <3>3. <<a, ToldState(r[k]), r[k].type>> \in LifecycleMoves
      BY <1>8, <2>1, <2>5, <3>2, Zenon
    <3>4. Says(x \o r, d, s, ToldState(r[k])) /\ Chained(x \o r, d, s)
      BY <2>4, <2>7, <3>1, <3>3, QueueOne, Zenon
    <3>5. StateOf(s)' = ToldState(r[k])
      BY <1>8, <2>5, <3>2, Zenon
    <3> QED
      BY <1>2, <1>8, <2>1, <2>3, <3>4, <3>5, Zenon
  <2>6. CASE s \notin S
    <3>1. Says(x \o r, d, s, a) /\ Chained(x \o r, d, s)
      BY <2>2, <2>4, <2>6, <2>7, QueueOthers, Zenon
    <3>2. StateOf(s)' = a
      BY <1>8, <2>1, <2>6, Zenon
    <3> QED
      BY <1>2, <1>8, <2>1, <2>3, <3>1, <3>2, Zenon
  <2> QED
    BY <2>5, <2>6
<1>9. CASE StaleSweep(p) \/ SubagentSweep(p)
  <2>1. PICK S \in SUBSET Sessions, type \in {"stale", "terminal"} :
          \E order \in SetToSeqs(S) :
             /\ \A t \in S : Active(t)
             /\ store' = [t \in Sessions |->
                   IF t \in S THEN [store[t] EXCEPT !.life = "terminal", !.done = 0]
                   ELSE store[t]]
             /\ poll'[p].lcs = poll[p].lcs \o SweepEvents(type, order, "active", "terminal")
    BY <1>9, TerminateKeeps, Zenon
  <2>2. PICK order \in SetToSeqs(S) :
             poll'[p].lcs = poll[p].lcs \o SweepEvents(type, order, "active", "terminal")
    BY <2>1, Zenon
  <2>3. seen' = seen /\ removed' = removed
    BY <1>9, TerminateKeeps DEF sinkVars
  <2>4. IF s \in S THEN StateOf(s) = "active" /\ StateOf(s)' = "terminal"
        ELSE StateOf(s)' = StateOf(s)
    BY <2>1, <2>3, TerminateMoves, Zenon
  <2>5. SweepEvents(type, order, "active", "terminal") \in Seq(LifecycleEvents)
    BY SweepEventsType, Zenon DEF SweepEvents
  <2>6. ToldState(LifecycleEvent(type, s, "active", "terminal")) = "terminal"
    BY DEF LifecycleEvent, ToldState
  <2>7. <<"active", "terminal", type>> \in LifecycleMoves
    BY DEF LifecycleMoves
  <2> QED
    BY <1>8, <2>2, <2>3, <2>4, <2>5, <2>6, <2>7, Zenon
<1>10. CASE RetentionSweep(p)
  <2>1. PICK order \in SetToSeqs(ExpiredSessions) :
          poll'[p].lcs = poll[p].lcs \o SweepEvents("removed", order, "terminal", "")
    BY <1>10, RetentionKeeps
  <2>2. PICK S \in SUBSET Sessions : S = ExpiredSessions
    BY DEF ExpiredSessions
  <2>3. seen' = seen
    BY <1>10, RetentionKeeps DEF sinkVars
  <2>4. IF s \in S THEN StateOf(s) = "terminal" /\ StateOf(s)' = "removed"
        ELSE StateOf(s)' = StateOf(s)
    BY <1>10, <2>2, RetentionMoves, Zenon
  <2>5. order \in SetToSeqs(S)
    BY <2>1, <2>2, Zenon
  <2>6. SweepEvents("removed", order, "terminal", "") \in Seq(LifecycleEvents)
    BY <2>5, SweepEventsType, Zenon DEF SweepEvents
  <2>7. ToldState(LifecycleEvent("removed", s, "terminal", "")) = "removed"
    BY DEF LifecycleEvent, ToldState
  <2>8. <<"terminal", "removed", "removed">> \in LifecycleMoves
    BY DEF LifecycleMoves
  <2> QED
    BY <1>8, <2>1, <2>3, <2>4, <2>5, <2>6, <2>7, <2>8, Zenon
<1>11. CASE EmitDelta(p) \/ EmitHealth(p)
  <2>1. StateOf(s)' = StateOf(s)
    BY <1>11, EmitKeeps, SameState DEF coreVars
  <2> QED
    BY <1>3, <1>11, <2>1, EmitDeltaKeeps, EmitHealthKeeps
<1>12. CASE EmitLifecycle(p)
  <2>1. StateOf(s)' = StateOf(s)
    BY <1>12, EmitKeeps, SameState DEF coreVars
  <2>2. /\ q # << >> /\ poll'[p].lcs = Tail(q)
        /\ seen' = [seen EXCEPT ![Head(q).id] = Head(q)]
    BY <1>12, EmitLifecycleKeeps
  <2> DEFINE d == IF Head(q).id = s THEN Head(q) ELSE e
  <2>3. /\ Head(q).id = s => Follows(e, Head(q))
        /\ Says(Tail(q), d, s, StateOf(s)) /\ Chained(Tail(q), d, s)
    <3>1. PICK x \in Seq(LifecycleEvents), b \in {e}, a \in {StateOf(s)} :
            x = q /\ b = e /\ a = StateOf(s)
      BY <1>1
    <3>2. x # << >> /\ Says(x, b, s, a) /\ Chained(x, b, s)
      BY <1>1, <2>2, <3>1, Zenon
    <3>3. LET c == IF Head(x).id = s THEN Head(x) ELSE b
          IN  /\ Head(x).id = s => Follows(b, Head(x))
              /\ Says(Tail(x), c, s, a) /\ Chained(Tail(x), c, s)
      BY <3>2, QueuePop, Zenon
    <3> QED
      BY <3>1, <3>3, Zenon
  <2>4. seen'[s] = d
    BY <1>1, <2>2
  <2>5. seen'[s] = e \/ Follows(e, seen'[s])
    BY <2>3, <2>4, Zenon
  <2>6. ToldState(seen'[s]) \in Delivered!States
    BY <1>1, <2>5 DEF Follows, LifecycleMoves, Delivered!States
  <2> HIDE DEF d
  <2>7. Told(poll'[p].lcs, seen'[s], s, StateOf(s)')
    BY <2>1, <2>2, <2>3, <2>4, Zenon DEF Told
  <2> QED
    BY <2>5, <2>6, <2>7, Zenon
<1> QED
  BY <1>4, <1>5, <1>6, <1>7, <1>9, <1>10, <1>11, <1>12, SoleSteps

\* With one goroutine polling and no call abandoned, between two polls the last
\* event the sink got about each session says the state the session is in.
THEOREM SinkIsToldTheTruth ==
  ASSUME NEW p \in Pollers, Pollers = {p}, "cancel" \notin FaultKinds
  PROVE  Spec => []ToldTheTruth
<1>1. PollInv(p) /\ EventInv(p) => ToldTheTruth
  <2> SUFFICES ASSUME PollInv(p), EventInv(p), Quiet, NEW s \in Sessions
               PROVE  ToldState(seen[s]) = StateOf(s)
    BY DEF ToldTheTruth
  <2>1. poll[p] = NewPoll
    BY DEF Quiet, PollInv
  <2>2. poll[p].lcs = << >>
    BY <2>1 DEF NewPoll
  <2>3. Of(poll[p].lcs, s) = {}
    BY <2>2 DEF Of
  <2> QED
    BY <2>3 DEF EventInv, Told, Says
<1>2. TypeInv /\ TypeInv' /\ PollInv(p) /\ [Next]_vars => PollInv(p)'
  BY PollStep
<1>3. TypeInv /\ TypeInv' /\ CtxLive /\ EventInv(p) /\ [Next]_vars => EventInv(p)'
  BY EventStep, NothingAbandoned
<1>4. TypeInv /\ CtxLive /\ [Next]_vars => CtxLive'
  BY CtxStep
<1>5. Init => PollInv(p) /\ EventInv(p)
  BY PollInit, EventInit
<1> QED
  BY TypeInit, TypeStep, CtxInit, <1>1, <1>2, <1>3, <1>4, <1>5, PTL DEF Spec

LEMMA DeliveredInit == Init => Delivered!Init
<1> SUFFICES ASSUME Init PROVE Delivered!Init
  OBVIOUS
<1>1. \A s \in Sessions : ToldState(seen[s]) = "untracked" /\ seen[s].type = "none"
  BY DEF Init, NoEvent, ToldState
<1> QED
  BY <1>1 DEF Delivered!Init

LEMMA DeliveredMoves ==
  ASSUME NEW s \in Sessions, Follows(seen[s], seen'[s])
  PROVE  Delivered!Moves(s)
BY DEF Follows, LifecycleMoves, Delivered!Moves, Delivered!Move, Delivered!Discovered,
       Delivered!Updated, Delivered!Ended, Delivered!WentStale, Delivered!Resumed,
       Delivered!Expired

LEMMA DeliveredStep ==
  ASSUME TypeInv', \A s \in Sessions : ToldState(seen'[s]) \in Delivered!States,
         \A s \in Sessions : seen'[s] = seen[s] \/ Follows(seen[s], seen'[s])
  PROVE  Delivered!Next
<1>1. \A s \in Sessions : ToldState(seen'[s]) \in Delivered!States
  OBVIOUS
<1>2. [s \in Sessions |-> ToldState(seen[s])]' \in [Sessions -> Delivered!States]
  BY <1>1
<1>3. \A s \in Sessions : seen'[s].type \in Delivered!Events
  <2>1. \A s \in Sessions : seen'[s] \in LifecycleEvents \cup {NoEvent}
    BY DEF TypeInv, TypeOK
  <2>2. \A e \in LifecycleEvents : e.type \in Delivered!Events
    BY DEF LifecycleEvents, Delivered!Events
  <2>3. NoEvent.type \in Delivered!Events
    BY DEF NoEvent, Delivered!Events
  <2> QED
    BY <2>1, <2>2, <2>3
<1>4. [s \in Sessions |-> seen[s].type]' \in [Sessions -> Delivered!Events]
  BY <1>3
<1>5. ASSUME NEW s \in Sessions PROVE Delivered!Stays(s) \/ Delivered!Moves(s)
  <2>1. CASE seen'[s] = seen[s]
    BY <2>1 DEF Delivered!Stays
  <2>2. CASE Follows(seen[s], seen'[s])
    BY <2>2, DeliveredMoves
  <2> QED
    BY <2>1, <2>2
<1> QED
  BY <1>2, <1>4, <1>5 DEF Delivered!Next

\* A call that is abandoned drops the events it has collected; Run, which alone
\* abandons one for good, calls no more after that.
ToldSoFar(p) ==
  /\ \A s \in Sessions : ToldState(seen[s]) \in Delivered!States
  /\ pc[p] # "stopped" => EventInv(p)

LEMMA ToldSoFarStep ==
  ASSUME NEW p \in Pollers, Pollers = {p}, p \in Runners \/ CtxLive,
         TypeInv, TypeInv', ToldSoFar(p), [Next]_vars
  PROVE  /\ ToldSoFar(p)'
         /\ \A s \in Sessions : seen'[s] = seen[s] \/ Follows(seen[s], seen'[s])
<1>1. pc \in [Pollers -> Labels]
  BY DEF TypeInv, TypeOK
<1>2. CASE ReturnErr(p)
  <2>1. p \in Runners
    BY <1>2, NothingAbandoned
  <2>2. pc'[p] = "stopped" /\ seen' = seen
    BY <1>1, <1>2, <2>1 DEF ReturnErr, Goto, sinkVars
  <2> QED
    BY <2>2 DEF ToldSoFar
<1>3. CASE pc[p] = "stopped"
  <2>1. Around
    BY <1>3, OnlyPoller, ZenonT(60) DEF PollLoop, SweepAndEmit, Begin, RunDone, ReturnErr, Discover,
       DiscoverFails, ReadCursor, Parse, ParseNothing, ParseFails, FinishSource, AtSource,
       AtHandle, CommitNew, CommitResumed, CommitTerminal, CommitUpdated, Finds,
       StaleSweep, SubagentSweep, RetentionSweep, EmitLifecycle, EmitDelta, EmitHealth,
       Emit, Return
  <2>2. pc' = pc /\ seen' = seen
    BY <2>1, AroundLeaves DEF sinkVars
  <2> QED
    BY <1>3, <2>2 DEF ToldSoFar
<1>4. CASE ~ReturnErr(p) /\ pc[p] # "stopped"
  <2>1. EventInv(p)
    BY <1>4 DEF ToldSoFar
  <2>2. /\ EventInv(p)'
        /\ \A s \in Sessions : seen'[s] = seen[s] \/ Follows(seen[s], seen'[s])
    BY <1>4, <2>1, EventStep
  <2>3. \A s \in Sessions : ToldState(seen'[s]) \in Delivered!States
    BY <2>2 DEF EventInv
  <2> QED
    BY <2>2, <2>3 DEF ToldSoFar
<1> QED
  BY <1>2, <1>3, <1>4

\* With one goroutine polling, what the sink is told of each session is a behaviour
\* of SessionLifecycle: the queues of a call lose, repeat and reorder nothing,
\* however the sweeps iterate over the map.  The goroutine is that of Run, which
\* may be cancelled at any time, or one that is never cancelled: a caller that
\* polls again after an abandoned call leaves a gap.
THEOREM SinkRefinesLifecycle ==
  ASSUME NEW p \in Pollers, Pollers = {p}, p \in Runners \/ "cancel" \notin FaultKinds
  PROVE  Spec => SinkFollowsLifecycle
<1> DEFINE Kept == p \in Runners \/ CtxLive
<1>1. SinkFollowsLifecycle
        <=> Delivered!Init
            /\ [][Delivered!Next]_<<[s \in Sessions |-> ToldState(seen[s])],
                                   [s \in Sessions |-> seen[s].type]>>
  BY DEF SinkFollowsLifecycle, Delivered!Spec
<1>2. TypeInv /\ TypeInv' /\ Kept /\ ToldSoFar(p) /\ [Next]_vars
        => ToldSoFar(p)'
           /\ [Delivered!Next]_<<[s \in Sessions |-> ToldState(seen[s])],
                                 [s \in Sessions |-> seen[s].type]>>
  <2> SUFFICES ASSUME TypeInv, TypeInv', Kept, ToldSoFar(p), [Next]_vars
               PROVE  ToldSoFar(p)' /\ Delivered!Next
    OBVIOUS
  <2>1. /\ ToldSoFar(p)'
        /\ \A s \in Sessions : seen'[s] = seen[s] \/ Follows(seen[s], seen'[s])
    BY ToldSoFarStep
  <2>2. \A s \in Sessions : ToldState(seen'[s]) \in Delivered!States
    BY <2>1 DEF ToldSoFar
  <2> QED
    BY <2>1, <2>2, DeliveredStep
<1>3. TypeInv /\ Kept /\ [Next]_vars => Kept'
  BY CtxStep
<1>4. Init => ToldSoFar(p) /\ Kept
  BY EventInit, CtxInit DEF ToldSoFar, EventInv
<1> HIDE DEF Kept
<1> QED
  BY TypeInit, TypeStep, DeliveredInit, <1>1, <1>2, <1>3, <1>4, PTL DEF Spec

-----------------------------------------------------------------------------
(* Health events *)

\* The positions in a queue of health events of those about source i.
About(q, i) == {k \in DOMAIN q : q[k].source = i}

\* Once the queue is delivered to a sink that knows status v of source i, the
\* last event about i says status st.
Reports(q, v, i, st) ==
  /\ About(q, i) = {} => v = st
  /\ \A k \in About(q, i) : (\A j \in About(q, i) : j <= k) => q[k].status = st

HealthInv(p) ==
  \A i \in Sources : Reports(poll[p].hev, sinkHealth[i], i, health[i].status)

HealthEvent == [source : Sources, status : Statuses]

LEMMA ReportsNext ==
  ASSUME NEW q \in Seq(HealthEvent), NEW i, NEW v, NEW st, NEW f \in HealthEvent,
         Reports(q, v, i, st)
  PROVE  Reports(q \o <<f>>, v, i, IF f.source = i THEN f.status ELSE st)
<1> DEFINE t == q \o <<f>>
           n == Len(q)
           g == <<f>>
           P == About(q, i)
<1>1. n \in Nat /\ DOMAIN q = 1..n
  BY LenProperties
<1>2. g \in Seq(HealthEvent) /\ Len(g) = 1 /\ g[1] = f
  OBVIOUS
<1>3. /\ t \in Seq(HealthEvent) /\ Len(t) = n + 1
      /\ \A k \in 1..n + 1 : t[k] = IF k <= n THEN q[k] ELSE g[k - n]
  BY <1>2, ConcatProperties
<1>4. DOMAIN t = 1..n + 1
  BY <1>3, LenProperties
<1>5. /\ P = {} => v = st
      /\ \A k \in P : (\A j \in P : j <= k) => q[k].status = st
  BY DEF Reports
<1> HIDE DEF t, n, g
<1>6. (n + 1) - n = 1 /\ ~(n + 1 <= n)
  BY <1>1
<1>7. t[n + 1] = f /\ \A k \in 1..n : t[k] = q[k]
  BY <1>1, <1>2, <1>3, <1>6
<1>8. \A k \in P : k \in 1..n /\ t[k] = q[k]
  BY <1>1, <1>7 DEF About
<1>9. About(t, i) = IF f.source = i THEN P \cup {n + 1} ELSE P
  BY <1>1, <1>4, <1>7 DEF About
<1> HIDE DEF P
<1>10. CASE f.source = i
  <2>1. \A k \in P : ~(n + 1 <= k)
    BY <1>1, <1>8
  <2> QED
    BY <1>7, <1>9, <1>10, <2>1 DEF Reports, t
<1>11. CASE f.source # i
  <2>1. Reports(t, v, i, st)
    BY <1>5, <1>8, <1>9, <1>11 DEF Reports
  <2> QED
    BY <1>11, <2>1, Zenon DEF t
<1> QED
  BY <1>10, <1>11

LEMMA ReportsPop ==
  ASSUME NEW q \in Seq(HealthEvent), q # << >>, NEW i, NEW v, NEW st, Reports(q, v, i, st)
  PROVE  Reports(Tail(q), IF Head(q).source = i THEN Head(q).status ELSE v, i, st)
<1> DEFINE t == Tail(q)
           n == Len(q)
           P == About(q, i)
           T == About(t, i)
           h == Head(q)
<1>1. n \in Nat /\ n # 0 /\ DOMAIN q = 1..n /\ h = q[1]
  BY LenProperties, EmptySeq
<1>2. t \in Seq(HealthEvent) /\ Len(t) = n - 1 /\ \A k \in 1..n - 1 : t[k] = q[k + 1]
  BY HeadTailProperties
<1>3. DOMAIN t = 1..n - 1
  BY <1>2, LenProperties
<1>4. /\ P = {} => v = st
      /\ \A k \in P : (\A j \in P : j <= k) => q[k].status = st
  BY DEF Reports
<1> HIDE DEF t, n, h
<1>5. \A k \in T : k \in Nat /\ 1 <= k /\ k + 1 \in P /\ t[k] = q[k + 1]
  BY <1>1, <1>2, <1>3 DEF About
<1>6. ASSUME NEW k \in P, k # 1 PROVE \E j \in T : k = j + 1
  <2>1. k - 1 \in 1..n - 1 /\ k = (k - 1) + 1
    BY <1>1, <1>6 DEF About
  <2>2. k - 1 \in T
    BY <1>1, <1>2, <1>3, <2>1 DEF About
  <2> QED
    BY <2>1, <2>2
<1>7. 1 \in P <=> h.source = i
  BY <1>1 DEF About
<1> HIDE DEF P, T
<1>8. T = {} => (IF h.source = i THEN h.status ELSE v) = st
  <2> SUFFICES ASSUME T = {} PROVE (IF h.source = i THEN h.status ELSE v) = st
    OBVIOUS
  <2>1. \A k \in P : k = 1
    BY <1>6
  <2>2. CASE h.source = i
    <3>1. 1 \in P /\ \A j \in P : j <= 1
      BY <1>7, <2>1, <2>2
    <3> QED
      BY <1>1, <1>4, <2>2, <3>1
  <2>3. CASE h.source # i
    <3>1. P = {}
      BY <1>7, <2>1, <2>3
    <3> QED
      BY <1>4, <2>3, <3>1
  <2> QED
    BY <2>2, <2>3
<1>9. ASSUME NEW k \in T, \A j \in T : j <= k
      PROVE  t[k].status = st
  <2>1. ASSUME NEW c \in P PROVE c <= k + 1
    <3>1. k \in Nat
      BY <1>5
    <3>2. CASE c = 1
      BY <3>1, <3>2
    <3>3. ASSUME NEW b \in T, c = b + 1 PROVE c <= k + 1
      <4>1. b <= k /\ b \in Nat
        BY <1>5, <1>9
      <4> QED
        BY <3>1, <3>3, <4>1
    <3> QED
      BY <1>6, <3>2, <3>3
  <2>2. k + 1 \in P /\ t[k] = q[k + 1]
    BY <1>5
  <2> QED
    BY <1>4, <2>1, <2>2
<1>10. Reports(t, IF h.source = i THEN h.status ELSE v, i, st)
  BY <1>8, <1>9, Zenon DEF Reports, T
<1> QED
  BY <1>10, Zenon DEF t, h

LEMMA HealthInit == ASSUME Init, NEW p \in Pollers PROVE HealthInv(p)
<1> SUFFICES ASSUME NEW i \in Sources
             PROVE  Reports(poll[p].hev, sinkHealth[i], i, health[i].status)
  BY DEF HealthInv
<1>1. sinkHealth[i] = "healthy" /\ health[i].status = "healthy" /\ poll[p].hev = << >>
  BY DEF Init, NewPoll
<1>2. About(<< >>, i) = {}
  BY DEF About
<1> QED
  BY <1>1, <1>2 DEF Reports

LEMMA HealthStep ==
  ASSUME NEW p \in Pollers, Pollers = {p},
         TypeInv, TypeInv', CtxLive, HealthInv(p), [Next]_vars
  PROVE  HealthInv(p)'
<1> SUFFICES ASSUME NEW i \in Sources
             PROVE  Reports(poll'[p].hev, sinkHealth'[i], i, health'[i].status)
  BY DEF HealthInv
<1> DEFINE q == poll[p].hev
           v == sinkHealth[i]
           st == health[i].status
<1>1. /\ q \in Seq(HealthEvent) /\ sinkHealth \in [Sources -> Statuses]
      /\ health \in [Sources -> [discover : Nat, parse : Nat, status : Statuses]]
      /\ Reports(q, v, i, st)
  BY FieldsType DEF TypeInv, TypeOK, HealthInv, HealthEvent
<1>2. ASSUME poll'[p].hev = q, sinkHealth' = sinkHealth, health' = health
      PROVE  Reports(poll'[p].hev, sinkHealth'[i], i, health'[i].status)
  BY <1>1, <1>2
<1>3. CASE Around
  BY <1>2, <1>3, AroundLeaves DEF sinkVars
<1>4. CASE Reads(p) \/ Return(p)
  BY <1>2, <1>4, ReadsKeep, ReturnKeeps DEF Keeps, coreVars, sinkVars
<1>5. CASE DiscoverFails(p) \/ FinishSource(p)
  <2>1. PICK new : RecordHealth(p, poll[p].src, new)
    BY <1>5, RecordsHealth, Zenon
  <2>2. PICK j \in Sources : j = poll[p].src
    BY <1>5, RecordsHealth
  <2>3. /\ health' = [health EXCEPT ![j] = new] /\ sinkHealth' = sinkHealth
        /\ poll'[p].hev = q \o HealthEvents(j, new)
    BY <2>1, <2>2, HealthKeeps DEF sinkVars
  <2>4. new.status \in Statuses
    <3>1. health'[j] = new /\ health'[j] \in [discover : Nat, parse : Nat, status : Statuses]
      BY <1>1, <2>3 DEF TypeInv, TypeOK
    <3> QED
      BY <3>1
  <2>5. health'[i].status = IF j = i THEN new.status ELSE st
    BY <1>1, <2>3
  <2>6. CASE new.status = health[j].status
    <3>1. HealthEvents(j, new) = << >>
      BY <2>6 DEF HealthEvents
    <3>2. q \o << >> = q
      BY <1>1, ConcatEmptySeq
    <3>3. poll'[p].hev = q
      BY <2>3, <3>1, <3>2, Zenon
    <3>4. health'[i].status = st
      BY <2>5, <2>6
    <3> QED
      BY <1>1, <2>3, <3>3, <3>4, Zenon
  <2>7. CASE new.status # health[j].status
    <3>1. PICK f \in HealthEvent : f = [source |-> j, status |-> new.status]
      BY <2>4 DEF HealthEvent
    <3>2. HealthEvents(j, new) = <<f>>
      BY <2>7, <3>1, Zenon DEF HealthEvents
    <3>3. f.source = j /\ f.status = new.status
      BY <3>1
    <3>4. PICK x \in Seq(HealthEvent), a \in {v}, b \in {st} : x = q /\ a = v /\ b = st
      BY <1>1
    <3>5. Reports(x, a, i, b)
      BY <1>1, <3>4, Zenon
    <3> DEFINE w == IF f.source = i THEN f.status ELSE b
    <3>6. Reports(x \o <<f>>, a, i, w)
      BY <3>5, ReportsNext, Zenon
    <3>7. w = health'[i].status
      BY <2>5, <3>3, <3>4
    <3> HIDE DEF w, q, v, st
    <3> QED
      BY <2>3, <3>2, <3>4, <3>6, <3>7, Zenon DEF v
  <2> QED
    BY <2>6, <2>7
<1>6. CASE Commits(p) \/ StaleSweep(p) \/ SubagentSweep(p) \/ RetentionSweep(p)
  BY <1>2, <1>6, CommitKeeps, TerminateKeeps, RetentionKeeps DEF sinkVars
<1>7. CASE EmitLifecycle(p) \/ EmitDelta(p)
  <2>1. health' = health
    BY <1>7, EmitKeeps DEF coreVars
  <2> QED
    BY <1>2, <1>7, <2>1, EmitLifecycleKeeps, EmitDeltaKeeps
<1>8. CASE EmitHealth(p)
  <2>1. health' = health
    BY <1>8, EmitKeeps DEF coreVars
  <2>2. PICK x \in Seq(HealthEvent), a \in {v}, b \in {st} : x = q /\ a = v /\ b = st
    BY <1>1
  <2>3. /\ x # << >> /\ poll'[p].hev = Tail(x)
        /\ sinkHealth' = [sinkHealth EXCEPT ![Head(x).source] = Head(x).status]
    BY <1>8, <2>2, EmitHealthKeeps
  <2>4. Reports(x, a, i, b)
    BY <1>1, <2>2, Zenon
  <2> DEFINE w == IF Head(x).source = i THEN Head(x).status ELSE a
  <2>5. Reports(Tail(x), w, i, b)
    BY <2>3, <2>4, ReportsPop, Zenon
  <2>6. sinkHealth'[i] = w
    BY <1>1, <2>2, <2>3
  <2> HIDE DEF w
  <2> QED
    BY <2>1, <2>2, <2>3, <2>5, <2>6, Zenon
<1> QED
  BY <1>3, <1>4, <1>5, <1>6, <1>7, <1>8, SoleSteps, NothingAbandoned

\* With one goroutine polling and no call abandoned, between two polls the last
\* health event of each source says the status the monitor has for it: an event
\* is sent on every change of status, and the queue keeps their order.
THEOREM HealthIsMirrored ==
  ASSUME NEW p \in Pollers, Pollers = {p}, "cancel" \notin FaultKinds
  PROVE  Spec => []HealthMirrored
<1>1. PollInv(p) /\ HealthInv(p) => HealthMirrored
  <2> SUFFICES ASSUME PollInv(p), HealthInv(p), Quiet, NEW i \in Sources
               PROVE  sinkHealth[i] = health[i].status
    BY DEF HealthMirrored
  <2>1. poll[p] = NewPoll
    BY DEF Quiet, PollInv
  <2>2. poll[p].hev = << >>
    BY <2>1 DEF NewPoll
  <2>3. About(poll[p].hev, i) = {}
    BY <2>2 DEF About
  <2> QED
    BY <2>3 DEF HealthInv, Reports
<1>2. TypeInv /\ TypeInv' /\ PollInv(p) /\ [Next]_vars => PollInv(p)'
  BY PollStep
<1>3. TypeInv /\ TypeInv' /\ CtxLive /\ HealthInv(p) /\ [Next]_vars => HealthInv(p)'
  BY HealthStep
<1>4. TypeInv /\ CtxLive /\ [Next]_vars => CtxLive'
  BY CtxStep
<1>5. Init => PollInv(p) /\ HealthInv(p)
  BY PollInit, HealthInit
<1> QED
  BY TypeInit, TypeStep, CtxInit, <1>1, <1>2, <1>3, <1>4, <1>5, PTL DEF Spec

-----------------------------------------------------------------------------
(* Counts: every record is counted once *)

HandlesOf(s) == {g \in Handles : g[2] = s}

\* A session has finitely many transcripts.
LEMMA HandlesFinite == ASSUME NEW s PROVE IsFiniteSet(HandlesOf(s))
<1>1. IsFiniteSet(Sources)
  BY ConfigAssumption, FS_Interval DEF Sources
<1>2. IsFiniteSet(Sources \X Sessions)
  BY <1>1, DataAssumption, FS_Product
<1>3. HandlesOf(s) \in SUBSET (Sources \X Sessions)
  BY DataAssumption DEF HandlesOf
<1> QED
  BY <1>2, <1>3, FS_Subset

\* The messages of the transcript of h between two positions.
Between(h, k, n) == MessageCountDelta(SubSeq(log[h], k + 1, n))

LEMMA BetweenAddsUp ==
  ASSUME TypeInv, NEW h \in Handles, NEW b \in Nat, NEW k \in Nat, NEW n \in Nat,
         b <= k, k <= n, n <= Len(log[h])
  PROVE  /\ Between(h, b, n) = Between(h, b, k) + Between(h, k, n)
         /\ Between(h, b, k) \in Nat /\ Between(h, k, n) \in Nat
         /\ Between(h, k, k) = 0
<1> DEFINE w == log[h]
           Count(i, j) == Cardinality(Positions(SubSeq(w, i + 1, j), {"msg"}))
<1>1. w \in Seq(Records) /\ Len(w) \in Nat
  BY LenProperties DEF TypeInv, TypeOK
<1>2. \A i, j \in Nat : Between(h, i, j) = Count(i, j)
  BY DEF Between, MessageCountDelta, Positions
<1> HIDE DEF w
<1>3. \A j \in Nat : \A i \in 0 .. j : j <= Len(w) =>
        /\ Count(0, j) = Count(0, i) + Count(i, j)
        /\ Count(i, j) \in Nat
  <2> SUFFICES ASSUME NEW j \in Nat, NEW i \in 0 .. j, j <= Len(w)
               PROVE  Count(0, j) = Count(0, i) + Count(i, j) /\ Count(i, j) \in Nat
    OBVIOUS
  <2>1. i \in 0 .. Len(w) /\ j \in i .. Len(w)
    BY <1>1
  <2>2. SubSeq(w, i + 1, j) \in Seq(Records)
    BY <1>1, <2>1, PartOfSeq
  <2>3. Count(i, j) \in Nat
    BY <2>2, PositionsAreFinite
  <2>4. Cardinality(Positions(SubSeq(w, 1, j), {"msg"}))
          = Cardinality(Positions(SubSeq(w, 1, i), {"msg"})) + Count(i, j)
    BY <1>1, <2>1, CountsAddUp
  <2>5. 0 + 1 = 1
    OBVIOUS
  <2> QED
    BY <2>3, <2>4, <2>5
<1>4. SubSeq(w, k + 1, k) = << >>
  <2>1. k \in 0 .. Len(w) /\ k \in k .. Len(w)
    BY <1>1 DEF w
  <2>2. SubSeq(w, k + 1, k) \in Seq(Records) /\ Len(SubSeq(w, k + 1, k)) = k - k
    BY <1>1, <2>1, PartOfSeq
  <2> QED
    BY <2>2, EmptySeq
<1>5. Count(k, k) = 0
  <2>1. Positions(<< >>, {"msg"}) = {}
    BY DEF Positions
  <2> QED
    BY <1>4, <2>1, FS_EmptySet
<1> HIDE DEF Count
<1>6. b \in 0 .. k /\ k \in 0 .. n /\ b \in 0 .. n /\ k <= Len(w) /\ n <= Len(w) /\ 0 \in 0 .. b
      /\ b <= Len(w)
  BY <1>1 DEF w
<1>7. /\ Count(0, n) = Count(0, k) + Count(k, n) /\ Count(k, n) \in Nat
      /\ Count(0, k) = Count(0, b) + Count(b, k) /\ Count(b, k) \in Nat
      /\ Count(0, n) = Count(0, b) + Count(b, n) /\ Count(b, n) \in Nat
      /\ Count(0, b) \in Nat
  BY <1>3, <1>6
<1>8. Count(b, n) = Count(b, k) + Count(k, n)
  BY <1>7
<1> QED
  BY <1>2, <1>5, <1>7, <1>8, SMTT(30)

\* A transcript is never read beyond its end, nor counted from beyond the cursor;
\* and the batch that is being committed is what follows the cursor.
CursorInv(p) ==
  /\ \A h \in Handles : base[h] <= cursors[h] /\ cursors[h] <= Len(log[h])
  /\ pc[p] = "commit" =>
       LET h == poll[p].h
           n == cursors[h] + Len(poll[p].batch)
       IN  n <= Len(log[h]) /\ poll[p].batch = SubSeq(log[h], cursors[h] + 1, n)

\* What the counts depend on: a step appends to a transcript, commits, or leaves
\* transcripts, cursors and counts alone.
Uncounted ==
  \A s \in Sessions : Tracked(s)' => Tracked(s) /\ store'[s].msgs = store[s].msgs

LEMMA CountingSteps ==
  ASSUME NEW p \in Pollers, Pollers = {p}, TypeInv, [Next]_vars
  PROVE  \/ Agent
         \/ Commits(p)
         \/ /\ UNCHANGED <<log, base, cursors>> /\ Uncounted
            /\ UNCHANGED <<pc, poll>> \/ pc'[p] # "commit" \/ Parse(p)
<1>1. store \in [Sessions -> SessionState] /\ pc \in [Pollers -> Labels]
  BY DEF TypeInv, TypeOK
<1>2. CASE Tick
  <2>1. UNCHANGED <<log, base, cursors, pc, poll>>
    BY <1>2 DEF Tick, envVars
  <2>2. ASSUME NEW s \in Sessions PROVE store'[s].life = store[s].life /\ store'[s].msgs = store[s].msgs
    <3> DEFINE st == store[s]
               d == Older(st.done)
               e == Older(st.data)
    <3>1. store'[s] = [st EXCEPT !.done = d, !.data = e] /\ st \in SessionState
      BY <1>1, <1>2, Zenon DEF Tick
    <3> HIDE DEF st, d, e
    <3>2. store'[s].life = st.life /\ store'[s].msgs = st.msgs
      BY <3>1 DEF SessionState
    <3> QED
      BY <3>2 DEF st
  <2> QED
    BY <2>1, <2>2 DEF Uncounted, Tracked
<1>3. CASE (\E q \in Pollers : Cancel(q)) \/ UNCHANGED vars
  BY <1>3 DEF Cancel, vars, envVars, coreVars, Uncounted, Tracked
<1>4. CASE Bystander(p)
  <2>1. UNCHANGED <<log, base, cursors>> /\ UNCHANGED store
    BY <1>4 DEF Bystander, Begin, RunDone, ReturnErr, Discover, DiscoverFails, ReadCursor, Parse,
       ParseNothing, ParseFails, FinishSource, EmitLifecycle, EmitDelta, EmitHealth, Return,
       RecordHealth, Emit, coreVars, envVars
  <2>2. pc'[p] # "commit" \/ Parse(p)
    BY <1>1, <1>4 DEF Bystander, Begin, RunDone, ReturnErr, Discover, DiscoverFails, ReadCursor,
       ParseNothing, ParseFails, FinishSource, EmitLifecycle, EmitDelta, EmitHealth, Return,
       RecordHealth, Emit, Goto
  <2> QED
    BY <2>1, <2>2 DEF Uncounted, Tracked
<1>5. CASE StaleSweep(p) \/ SubagentSweep(p)
  <2>1. UNCHANGED <<log, base, cursors>>
    BY <1>5 DEF StaleSweep, SubagentSweep, Terminate, envVars
  <2>2. pc'[p] # "commit"
    BY <1>1, <1>5 DEF StaleSweep, SubagentSweep, Goto
  <2>3. PICK S \in SUBSET Sessions :
          /\ \A s \in S : Active(s)
          /\ store' = [s \in Sessions |->
                IF s \in S THEN [store[s] EXCEPT !.life = "terminal", !.done = 0] ELSE store[s]]
    BY <1>5, TerminateKeeps
  <2>4. ASSUME NEW s \in Sessions
        PROVE  store'[s].msgs = store[s].msgs /\ (store'[s].life # "" => store[s].life # "")
    BY <1>1, <2>3 DEF SessionState, Active
  <2> QED
    BY <2>1, <2>2, <2>4 DEF Uncounted, Tracked
<1>6. CASE RetentionSweep(p)
  <2>1. UNCHANGED <<log, base, cursors>> /\ pc'[p] # "commit"
    BY <1>1, <1>6 DEF RetentionSweep, envVars, Goto
  <2>2. store' = [s \in Sessions |-> IF s \in ExpiredSessions THEN Absent ELSE store[s]]
    BY <1>6, RetentionKeeps
  <2> QED
    BY <2>1, <2>2, AbsentFields DEF Uncounted, Tracked
<1> QED
  BY <1>2, <1>3, <1>4, <1>5, <1>6, PollerSteps DEF Around

\* What a commit does to the cursors and to the count of its session, h being the
\* transcript it commits, b the batch and st the state it stores.
Entered(h) ==
  [g \in Handles |->
     IF g = h THEN cursors[h] ELSE IF g[2] = h[2] THEN cursors[g] ELSE base[g]]

CountingCommit(h, b, st) ==
  /\ log' = log
  /\ cursors' = [cursors EXCEPT ![h] = cursors[h] + Len(b)]
  /\ store' = [store EXCEPT ![h[2]] = st] /\ st.life # ""
  /\ \/ /\ store[h[2]].life # "" /\ base' = base
        /\ st.msgs = store[h[2]].msgs + MessageCountDelta(b)
     \/ /\ store[h[2]].life = "" /\ base' = Entered(h)
        /\ st.msgs = MessageCountDelta(b)

LEMMA CommitCounts ==
  ASSUME NEW p \in Pollers, TypeInv, PollInv(p), Commits(p),
         NEW h, h = poll[p].h, NEW b, b = poll[p].batch
  PROVE  \E st \in SessionState : CountingCommit(h, b, st)
<1> DEFINE s == h[2]
           n == MessageCountDelta(b)
<1>1. /\ s \in Sessions /\ h \in Handles /\ pc[p] = "commit"
      /\ cursors' = [cursors EXCEPT ![h] = poll[p].cur + Len(b)]
  BY CommitKeeps DEF SessionAt
<1>2. poll[p].cur = cursors[h]
  BY <1>1 DEF PollInv
<1>3. log' = log
  BY DEF Commits, CommitNew, CommitResumed, CommitTerminal, CommitUpdated, Commit, envVars
<1>4. /\ store \in [Sessions -> SessionState] /\ store[s] \in SessionState
      /\ b \in Seq(Records) /\ n \in Nat
  BY <1>1, FieldsType, DeltaType DEF TypeInv, TypeOK
<1>5. ASSUME NEW st \in SessionState
      PROVE  /\ Applied(p, st) \in SessionState /\ Applied(p, st).msgs = st.msgs + n
             /\ Applied(p, st).life = st.life
  <2> DEFINE g == IF HasLines(b) THEN SlugOf[s] ELSE st.slug
             S == IF Subagents(b) # {} THEN CompletedIn(b) ELSE st.subs
             m == st.msgs + n
  <2>1. Applied(p, st) = [st EXCEPT !.msgs = m, !.data = 0, !.slug = g, !.subs = S]
    BY Zenon DEF Applied, applyUpdate, SessionAt
  <2>2. Applied(p, st) \in SessionState /\ Applied(p, st).life = st.life
    BY <1>1, <1>4, ApplyType DEF Applied, SessionAt
  <2> HIDE DEF g, S, m
  <2>3. Applied(p, st).msgs = m
    BY <2>1 DEF SessionState
  <2> QED
    BY <2>2, <2>3 DEF m
<1>6. store[s] = Existing(p) /\ SessionAt(p) = s
  BY DEF Existing, SessionAt
<1> DEFINE Goal(st) ==
             /\ st \in SessionState
             /\ store' = [store EXCEPT ![s] = st] /\ st.life # ""
             /\ \/ store[s].life # "" /\ base' = base /\ st.msgs = store[s].msgs + n
                \/ store[s].life = "" /\ base' = Entered(h) /\ st.msgs = n
<1> HIDE DEF n, s
<1>7. \E st : Goal(st)
  <2>1. CASE CommitNew(p)
    <3> DEFINE st == Applied(p, [Absent EXCEPT !.life = "active"])
    <3>1. /\ [Absent EXCEPT !.life = "active"] \in SessionState
          /\ [Absent EXCEPT !.life = "active"].life = "active"
          /\ [Absent EXCEPT !.life = "active"].msgs = 0
      BY AbsentType DEF Absent, SessionState
    <3>2. st \in SessionState /\ st.msgs = 0 + n /\ st.life = "active"
      BY <1>5, <3>1, Zenon
    <3>3. /\ store[s].life = ""
          /\ store' = [store EXCEPT ![s] = st]
      BY <1>6, <2>1, Zenon DEF CommitNew, Finds, Commit, SessionAt
    <3>4. base' = Entered(h)
      BY <1>2, <1>6, <2>1, Zenon DEF CommitNew, Entered, s
    <3> HIDE DEF st
    <3>5. st.msgs = n
      BY <1>4, <3>2
    <3> QED
      BY <3>2, <3>3, <3>4, <3>5
  <2>2. CASE CommitResumed(p)
    <3> DEFINE a == Applied(p, Existing(p))
               st == [a EXCEPT !.life = "active", !.done = Never]
    <3>1. a \in SessionState /\ a.msgs = store[s].msgs + n
      BY <1>4, <1>5, <1>6, Zenon
    <3>2. /\ store[s].life = "terminal" /\ base' = base
          /\ store' = [store EXCEPT ![s] = st]
      BY <1>6, <2>2, Zenon DEF CommitResumed, Finds, Commit, SessionAt
    <3> HIDE DEF a
    <3>3. st \in SessionState /\ st.msgs = a.msgs /\ st.life = "active"
      BY <3>1 DEF SessionState
    <3> HIDE DEF st
    <3> QED
      BY <3>1, <3>2, <3>3
  <2>3. CASE CommitTerminal(p)
    <3> DEFINE a == Applied(p, Existing(p))
    <3>1. a \in SessionState /\ a.msgs = store[s].msgs + n
      BY <1>4, <1>5, <1>6, Zenon
    <3>2. PICK age \in EndedAges \cup {0} :
            store' = [store EXCEPT ![s] = [a EXCEPT !.life = "terminal", !.done = age]]
      BY <1>6, <2>3, Zenon DEF CommitTerminal, Finds, Commit, SessionAt
    <3>3. store[s].life = "active" /\ base' = base
      BY <1>6, <2>3, Zenon DEF CommitTerminal, Finds
    <3> DEFINE st == [a EXCEPT !.life = "terminal", !.done = age]
    <3> HIDE DEF a
    <3>4. age \in Ages
      BY ConfigAssumption, OlderType
    <3>5. st \in SessionState /\ st.msgs = a.msgs /\ st.life = "terminal"
      BY <3>1, <3>4 DEF SessionState
    <3> HIDE DEF st
    <3>6. store' = [store EXCEPT ![s] = st]
      BY <3>2 DEF st
    <3> QED
      BY <3>1, <3>3, <3>5, <3>6
  <2>4. CASE CommitUpdated(p)
    <3> DEFINE st == Applied(p, Existing(p))
    <3>1. /\ st \in SessionState /\ st.msgs = store[s].msgs + n
          /\ st.life = store[s].life
      BY <1>4, <1>5, <1>6, Zenon
    <3>2. /\ store[s].life = "active" /\ base' = base
          /\ store' = [store EXCEPT ![s] = st]
      BY <1>6, <2>4, Zenon DEF CommitUpdated, Finds, Commit, SessionAt
    <3> HIDE DEF st
    <3> QED
      BY <3>1, <3>2
  <2> QED
    BY <2>1, <2>2, <2>3, <2>4 DEF Commits
<1>8. PICK st : Goal(st)
  BY <1>7, Zenon
<1> QED
  BY <1>1, <1>2, <1>3, <1>8 DEF CountingCommit, n, s

\* An agent only appends: what lies before the end of a transcript stays.
LEMMA WriteKeeps ==
  ASSUME TypeInv, Agent, NEW h \in Handles, NEW k \in Nat, NEW n \in Nat,
         k <= n, n <= Len(log[h])
  PROVE  SubSeq(log'[h], k + 1, n) = SubSeq(log[h], k + 1, n) /\ n <= Len(log'[h])
<1> DEFINE w == log[h]
<1>1. log \in [Handles -> Seq(Records)] /\ w \in Seq(Records) /\ Len(w) \in Nat
  BY LenProperties DEF TypeInv, TypeOK
<1>2. PICK g \in Handles, e \in Kinds : log' = [log EXCEPT ![g] = Append(log[g], e)]
  BY Zenon DEF Agent, Write
<1>3. e \in Records
  BY DataAssumption
<1>4. CASE g = h
  <2>1. log'[h] = Append(w, e)
    BY <1>1, <1>2, <1>4
  <2>2. Len(Append(w, e)) = Len(w) + 1
    BY <1>1, <1>3, AppendProperties
  <2>3. k \in 0 .. Len(w) /\ n \in k .. Len(w) /\ n <= Len(w) + 1
    BY <1>1
  <2> HIDE DEF w
  <2>4. SubSeq(Append(w, e), k + 1, n) = SubSeq(w, k + 1, n)
    BY <1>1, <1>3, <2>3, PartOfAppend
  <2> QED
    BY <2>1, <2>2, <2>3, <2>4 DEF w
<1>5. CASE g # h
  <2>1. log'[h] = log[h]
    BY <1>1, <1>2, <1>5
  <2> QED
    BY <2>1
<1> QED
  BY <1>4, <1>5

LEMMA CursorInit == ASSUME Init, NEW p \in Pollers PROVE CursorInv(p)
<1>1. /\ pc[p] = "idle"
      /\ \A h \in Handles : base[h] = 0 /\ cursors[h] = 0 /\ log[h] = << >>
  BY DEF Init
<1>2. Len(<< >>) = 0
  BY EmptySeq
<1> QED
  BY <1>1, <1>2 DEF CursorInv

LEMMA CursorStep ==
  ASSUME NEW p \in Pollers, Pollers = {p}, TypeInv, TypeInv', PollInv(p), CursorInv(p),
         [Next]_vars
  PROVE  CursorInv(p)'
<1>1. /\ log \in [Handles -> Seq(Records)] /\ cursors \in [Handles -> Nat]
      /\ base \in [Handles -> Nat] /\ pc \in [Pollers -> Labels]
      /\ poll \in [Pollers -> Poll] /\ poll[p] \in Poll
      /\ pc[p] \in {"parse", "commit"} => poll[p].h \in Handles
      /\ poll[p].batch \in Seq(Records)
  BY FieldsType DEF TypeInv, TypeOK, LocalsInScope
<1>2. \A h \in Handles : Len(log[h]) \in Nat /\ base[h] \in Nat /\ cursors[h] \in Nat
  BY <1>1, LenProperties
<1>3. \A h \in Handles : base[h] <= cursors[h] /\ cursors[h] <= Len(log[h])
  BY DEF CursorInv
<1>4. CASE Agent
  <2>1. UNCHANGED <<base, cursors, pc, poll>>
    BY <1>4 DEF Agent, Write, coreVars
  <2>2. \A h \in Handles : cursors[h] <= Len(log'[h])
    BY <1>2, <1>3, <1>4, WriteKeeps
  <2>3. ASSUME pc[p] = "commit", NEW h, h = poll[p].h, NEW n, n = cursors[h] + Len(poll[p].batch)
        PROVE  n <= Len(log'[h]) /\ poll[p].batch = SubSeq(log'[h], cursors[h] + 1, n)
    <3>1. h \in Handles /\ n \in Nat /\ cursors[h] <= n
      BY <1>1, <1>2, <2>3, LenProperties
    <3>2. n <= Len(log[h]) /\ poll[p].batch = SubSeq(log[h], cursors[h] + 1, n)
      BY <2>3 DEF CursorInv
    <3> QED
      BY <1>2, <1>4, <3>1, <3>2, WriteKeeps
  <2> QED
    BY <1>3, <2>1, <2>2, <2>3 DEF CursorInv
<1>5. CASE UNCHANGED <<log, base, cursors>> /\ pc'[p] # "commit"
  BY <1>3, <1>5 DEF CursorInv
<1>6. CASE UNCHANGED <<log, base, cursors>> /\ UNCHANGED <<pc, poll>>
  BY <1>6 DEF CursorInv
<1>7. CASE UNCHANGED <<log, base, cursors>> /\ Parse(p)
  <2> DEFINE b == Unread(p)
  <2>1. pc[p] = "parse" /\ SetLocals(p, [poll[p] EXCEPT !.batch = b]) /\ b # << >>
    BY <1>7, Zenon DEF Parse
  <2>2. PICK h \in Handles : h = poll[p].h
    BY <1>1, <2>1
  <2>3. b = SubSeq(log[h], cursors[h] + 1, Len(log[h]))
    BY <2>1, <2>2 DEF Unread, PollInv
  <2> HIDE DEF b
  <2>4. poll'[p].h = h /\ poll'[p].batch = b
    BY <1>1, <2>1, <2>2 DEF SetLocals, Poll
  <2>5. cursors[h] \in 0 .. Len(log[h]) /\ Len(log[h]) \in cursors[h] .. Len(log[h])
    BY <1>2, <1>3
  <2>6. Len(b) = Len(log[h]) - cursors[h]
    BY <1>1, <2>3, <2>5, PartOfSeq
  <2>7. cursors[h] + Len(b) = Len(log[h])
    BY <1>2, <2>6
  <2>8. Len(log[h]) <= Len(log[h])
    BY <1>2
  <2> QED
    BY <1>3, <1>7, <2>3, <2>4, <2>7, <2>8 DEF CursorInv
<1>8. CASE Commits(p)
  <2>1. PICK h \in Handles, b \in Seq(Records) : h = poll[p].h /\ b = poll[p].batch
    BY <1>1, <1>8, CommitKeeps
  <2>0. PICK st \in SessionState : CountingCommit(h, b, st)
    BY <1>8, <2>1, CommitCounts
  <2>2. /\ log' = log /\ cursors' = [cursors EXCEPT ![h] = cursors[h] + Len(b)]
        /\ base' = base \/ base' = Entered(h)
    BY <2>0, Zenon DEF CountingCommit
  <2>3. pc[p] = "commit" /\ pc'[p] = "handles"
    BY <1>1, <1>8, CommitKeeps DEF Goto
  <2>4. cursors[h] + Len(b) <= Len(log[h]) /\ Len(b) \in Nat
    BY <2>1, <2>3, LenProperties DEF CursorInv
  <2>5. ASSUME NEW g \in Handles
        PROVE  base'[g] <= cursors'[g] /\ cursors'[g] <= Len(log'[g])
    <3>1. cursors[g] <= cursors'[g] /\ cursors'[g] <= Len(log[g]) /\ cursors'[g] \in Nat
      BY <1>1, <1>2, <1>3, <2>2, <2>4
    <3>2. base'[g] = base[g] \/ base'[g] = cursors[g]
      BY <2>2 DEF Entered
    <3> QED
      BY <1>2, <1>3, <2>2, <3>1, <3>2
  <2> QED
    BY <2>3, <2>5 DEF CursorInv
<1> QED
  BY <1>4, <1>5, <1>6, <1>7, <1>8, CountingSteps

\* The counts of the transcripts of a session, which its own count is the sum of.
CountsOf(s) == [h \in HandlesOf(s) |-> MessagesIn(h)]

LEMMA MessagesAreBetween == \A h : MessagesIn(h) = Between(h, base[h], cursors[h])
BY DEF MessagesIn, Between

LEMMA CountsType ==
  ASSUME TypeInv, \A h \in Handles : base[h] <= cursors[h] /\ cursors[h] <= Len(log[h]), NEW s
  PROVE  CountsOf(s) \in [HandlesOf(s) -> Nat]
<1>1. ASSUME NEW h \in HandlesOf(s) PROVE MessagesIn(h) \in Nat
  <2>1. h \in Handles /\ base[h] \in Nat /\ cursors[h] \in Nat
    BY DEF HandlesOf, TypeInv, TypeOK
  <2>2. Between(h, base[h], cursors[h]) \in Nat
    <3>1. PICK b \in Nat, n \in Nat : b = base[h] /\ n = cursors[h]
      BY <2>1
    <3>2. b <= n /\ n <= n /\ n <= Len(log[h])
      BY <2>1, <3>1
    <3> QED
      BY <2>1, <3>1, <3>2, BetweenAddsUp
  <2> QED
    BY <2>2, MessagesAreBetween
<1> QED
  BY <1>1 DEF CountsOf

\* A step that changes no transcript's count changes no session's.
LEMMA CountsStay ==
  ASSUME CountsMatchCursors, Uncounted, \A h \in Handles : MessagesIn(h)' = MessagesIn(h)
  PROVE  CountsMatchCursors'
<1> SUFFICES ASSUME NEW s \in Sessions, Tracked(s)'
             PROVE  store'[s].msgs = SumFunction(CountsOf(s))'
  BY DEF CountsMatchCursors, CountsOf, HandlesOf
<1>1. CountsOf(s)' = CountsOf(s)
  BY DEF CountsOf, HandlesOf
<1>2. store[s].msgs = SumFunction(CountsOf(s))
  BY DEF Uncounted, CountsMatchCursors, CountsOf, HandlesOf
<1>3. SumFunction(CountsOf(s))' = SumFunction(CountsOf(s)')
  OBVIOUS
<1> QED
  BY <1>1, <1>2, <1>3 DEF Uncounted

LEMMA CountStep ==
  ASSUME NEW p \in Pollers, Pollers = {p}, TypeInv, TypeInv', PollInv(p), CursorInv(p),
         CursorInv(p)', CountsMatchCursors, [Next]_vars
  PROVE  CountsMatchCursors'
<1>1. /\ log \in [Handles -> Seq(Records)] /\ cursors \in [Handles -> Nat]
      /\ base \in [Handles -> Nat] /\ store \in [Sessions -> SessionState]
      /\ poll[p].batch \in Seq(Records)
  BY FieldsType DEF TypeInv, TypeOK
<1>2. \A h \in Handles :
        /\ Len(log[h]) \in Nat /\ base[h] \in Nat /\ cursors[h] \in Nat
        /\ base[h] <= cursors[h] /\ cursors[h] <= Len(log[h])
  BY <1>1, LenProperties DEF CursorInv
<1>3. CASE Agent
  <2>1. UNCHANGED <<base, cursors, store>>
    BY <1>3 DEF Agent, Write, coreVars
  <2>2. ASSUME NEW h \in Handles PROVE MessagesIn(h)' = MessagesIn(h)
    <3>1. SubSeq(log'[h], base[h] + 1, cursors[h]) = SubSeq(log[h], base[h] + 1, cursors[h])
      BY <1>2, <1>3, WriteKeeps
    <3> QED
      BY <2>1, <3>1 DEF MessagesIn
  <2> QED
    BY <2>1, <2>2, CountsStay DEF Uncounted, Tracked
<1>4. CASE UNCHANGED <<log, base, cursors>> /\ Uncounted
  BY <1>4, CountsStay DEF MessagesIn
<1>5. CASE Commits(p)
  <2>1. PICK h \in Handles, b \in Seq(Records) :
          h = poll[p].h /\ b = poll[p].batch /\ h[2] \in Sessions /\ pc[p] = "commit"
    BY <1>1, <1>5, CommitKeeps DEF SessionAt
  <2>2. PICK c \in Nat, n \in Nat, d \in Nat :
          c = cursors[h] /\ n = c + Len(b) /\ d = MessageCountDelta(b)
    <3>1. Len(b) \in Nat /\ MessageCountDelta(b) \in Nat /\ cursors[h] \in Nat
      BY <1>2, DeltaType, LenProperties
    <3>2. cursors[h] + Len(b) \in Nat
      BY <3>1
    <3> QED
      BY <3>1, <3>2
  <2> DEFINE s == h[2]
             T == HandlesOf(s)
  <2>3. PICK e : e = CountsOf(s)'
    OBVIOUS
  <2>4. PICK st \in SessionState : CountingCommit(h, b, st)
    BY <1>5, <2>1, CommitCounts
  <2>5. /\ log' = log /\ cursors' = [cursors EXCEPT ![h] = n]
        /\ store' = [store EXCEPT ![s] = st]
        /\ \/ store[s].life # "" /\ base' = base /\ st.msgs = store[s].msgs + d
           \/ store[s].life = "" /\ base' = Entered(h) /\ st.msgs = d
    BY <2>2, <2>4 DEF CountingCommit
  <2>6. n <= Len(log[h]) /\ b = SubSeq(log[h], c + 1, n) /\ c <= n
    <3>1. n <= Len(log[h]) /\ b = SubSeq(log[h], c + 1, n)
      BY <2>1, <2>2 DEF CursorInv
    <3>2. Len(b) \in Nat /\ n = c + Len(b)
      BY <2>2, LenProperties
    <3>3. c <= n
      BY <3>2
    <3> QED
      BY <3>1, <3>3
  <2>7. Between(h, c, n) = d
    BY <2>2, <2>6 DEF Between
  <2>8. /\ cursors'[h] = n
        /\ \A g \in Handles : g # h => cursors'[g] = cursors[g]
    BY <1>1, <2>5
  <2>9. \A g \in T : e[g] = Between(g, base'[g], cursors'[g])
    BY <2>3, <2>5 DEF CountsOf, MessagesIn, Between, HandlesOf
  <2>10. e \in [T -> Nat] /\ IsFiniteSet(T) /\ h \in T
    <3>1. ASSUME NEW g \in T PROVE e[g] \in Nat
      <4>1. g \in Handles /\ base'[g] \in Nat /\ cursors'[g] \in Nat
        BY DEF HandlesOf, TypeInv, TypeOK
      <4>2. base'[g] <= cursors'[g] /\ cursors'[g] <= Len(log'[g])
        BY <4>1 DEF CursorInv
      <4>3. PICK i \in Nat, j \in Nat : i = base'[g] /\ j = cursors'[g]
        BY <4>1
      <4>4. i <= j /\ j <= j /\ j <= Len(log[g])
        <5>1. log' = log
          BY <2>5, Zenon
        <5>2. i <= j /\ j <= j
          BY <4>2, <4>3
        <5>3. j <= Len(log[g])
          BY <4>2, <4>3, <5>1, Zenon
        <5> QED
          BY <5>2, <5>3
      <4>5. Between(g, i, j) \in Nat
        BY <4>1, <4>4, BetweenAddsUp
      <4> QED
        BY <2>9, <4>3, <4>5
    <3>2. e = [g \in T |-> e[g]]
      BY <2>3 DEF CountsOf, HandlesOf
    <3>3. h \in T
      BY DEF HandlesOf
    <3> QED
      BY <3>1, <3>2, <3>3, HandlesFinite
  <2> HIDE DEF T
  <2>11. st.msgs = SumFunction(e)
    <3>1. CASE store[s].life # "" /\ base' = base /\ st.msgs = store[s].msgs + d
      <4>1. PICK f : f = CountsOf(s)
        OBVIOUS
      <4>2. f \in [T -> Nat]
        BY <1>2, <4>1, CountsType DEF T
      <4>3. store[s].msgs = SumFunction(f)
        BY <2>1, <3>1, <4>1 DEF CountsMatchCursors, Tracked, CountsOf, HandlesOf
      <4>4. \A g \in T : f[g] = Between(g, base[g], cursors[g])
        BY <4>1, MessagesAreBetween DEF CountsOf, T
      <4>5. PICK i \in Nat : i = base[h] /\ i <= c
        BY <1>2, <2>2
      <4>6. Between(h, i, n) = Between(h, i, c) + Between(h, c, n)
        <5>1. h \in Handles /\ i <= c /\ c <= n /\ n <= Len(log[h])
          BY <2>6, <4>5
        <5> QED
          BY <5>1, BetweenAddsUp
      <4>7. e[h] = f[h] + d
        BY <2>2, <2>7, <2>8, <2>9, <2>10, <3>1, <4>4, <4>5, <4>6
      <4>8. ASSUME NEW g \in T \ {h} PROVE e[g] = f[g]
        <5>1. g \in T /\ g \in Handles /\ g # h
          BY DEF T, HandlesOf
        <5>2. cursors'[g] = cursors[g] /\ base'[g] = base[g]
          BY <2>8, <3>1, <5>1
        <5>3. e[g] = Between(g, base[g], cursors[g])
          BY <2>9, <5>1, <5>2
        <5> QED
          BY <4>4, <5>1, <5>3
      <4>9. SumFunction(e) = SumFunction(f) + d
        BY <2>10, <4>2, <4>7, <4>8, SumOfChange
      <4> QED
        BY <3>1, <4>3, <4>9
    <3>2. CASE store[s].life = "" /\ base' = Entered(h) /\ st.msgs = d
      <4> DEFINE f == [g \in T |-> 0]
      <4>1. f \in [T -> Nat] /\ DOMAIN f = T /\ \A g \in T : f[g] = 0
        OBVIOUS
      <4>2. base'[h] = c
        BY <2>2, <3>2 DEF Entered
      <4>3. \A g \in T \ {h} : base'[g] = cursors[g] /\ cursors'[g] = cursors[g] /\ g \in Handles
        BY <2>8, <3>2 DEF T, HandlesOf, Entered
      <4>4. ASSUME NEW g \in Handles PROVE Between(g, cursors[g], cursors[g]) = 0
        <5>1. PICK i \in Nat : i = cursors[g] /\ i <= i /\ i <= Len(log[g])
          BY <1>2
        <5> QED
          BY <5>1, BetweenAddsUp
      <4>5. e[h] = f[h] + d
        BY <2>7, <2>8, <2>9, <2>10, <4>1, <4>2
      <4>6. \A g \in T \ {h} : e[g] = f[g]
        BY <2>9, <4>1, <4>3, <4>4
      <4> HIDE DEF f
      <4>7. SumFunction(e) = SumFunction(f) + d
        BY <2>10, <4>1, <4>5, <4>6, SumOfChange
      <4>8. SumFunction(f) = 0
        BY <2>10, <4>1, SumOfZeros
      <4>9. 0 + d = d
        OBVIOUS
      <4> QED
        BY <3>2, <4>7, <4>8, <4>9
    <3> QED
      BY <2>5, <3>1, <3>2
  <2>12. ASSUME NEW r \in Sessions, Tracked(r)'
         PROVE  store'[r].msgs = SumFunction(CountsOf(r))'
    <3>1. CASE r = s
      <4>1. store'[r] = st
        BY <1>1, <2>1, <2>5, <3>1
      <4>2. SumFunction(CountsOf(r))' = SumFunction(e)
        BY <2>3, <3>1, Zenon
      <4> QED
        BY <2>11, <4>1, <4>2
    <3>2. CASE r # s
      <4>1. store'[r] = store[r]
        BY <1>1, <2>5, <3>2
      <4>2. \A g \in HandlesOf(r) : base'[g] = base[g] /\ cursors'[g] = cursors[g]
        BY <2>5, <2>8, <3>2 DEF HandlesOf, Entered
      <4>3. \A g \in HandlesOf(r) : MessagesIn(g)' = MessagesIn(g)
        BY <2>5, <4>2, Zenon DEF MessagesIn
      <4>6. CountsOf(r)' = CountsOf(r)
        BY <4>3, Zenon DEF CountsOf, HandlesOf
      <4>4. store[r].msgs = SumFunction(CountsOf(r))
        BY <2>12, <4>1 DEF CountsMatchCursors, Tracked, CountsOf, HandlesOf
      <4>5. SumFunction(CountsOf(r))' = SumFunction(CountsOf(r)')
        OBVIOUS
      <4> QED
        BY <4>1, <4>4, <4>5, <4>6
    <3> QED
      BY <3>1, <3>2
  <2> QED
    BY <2>12 DEF CountsMatchCursors, CountsOf, HandlesOf
<1> QED
  BY <1>3, <1>4, <1>5, CountingSteps

\* With one goroutine polling, the count of a tracked session is the number of
\* messages between the cursors at which it entered the store and the current
\* ones, summed over the sources that report it: whatever fails, is abandoned or
\* is taken up again, no record is lost or counted twice (monitor.go:98-175).
THEOREM EveryRecordIsCountedOnce ==
  ASSUME NEW p \in Pollers, Pollers = {p}
  PROVE  Spec => []CountsMatchCursors
<1>1. Init => PollInv(p) /\ CursorInv(p)
  BY PollInit, CursorInit
<1>2. Init => CountsMatchCursors
  <2> SUFFICES ASSUME Init, NEW s \in Sessions PROVE ~Tracked(s)
    BY DEF CountsMatchCursors
  <2> QED
    BY AbsentFields DEF Init, Tracked
<1>3. TypeInv /\ TypeInv' /\ PollInv(p) /\ [Next]_vars => PollInv(p)'
  BY PollStep
<1>4. TypeInv /\ TypeInv' /\ PollInv(p) /\ CursorInv(p) /\ [Next]_vars => CursorInv(p)'
  BY CursorStep
<1>5. TypeInv /\ TypeInv' /\ PollInv(p) /\ CursorInv(p) /\ CursorInv(p)'
        /\ CountsMatchCursors /\ [Next]_vars => CountsMatchCursors'
  BY CountStep
<1> QED
  BY TypeInit, TypeStep, <1>1, <1>2, <1>3, <1>4, <1>5, PTL DEF Spec

=============================================================================
