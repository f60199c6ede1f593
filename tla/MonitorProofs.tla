---------------------------- MODULE MonitorProofs ----------------------------
(***************************************************************************)
(* Proofs about module Monitor, for any number of concurrent callers of    *)
(* PollOnce, any sources, sessions and thresholds: type correctness, the   *)
(* consistency of the store, and that the store implements                 *)
(* SessionLifecycle.                                                       *)
(***************************************************************************)
EXTENDS Monitor, FiniteSetTheorems, SequenceTheorems, TLAPS

-----------------------------------------------------------------------------
(* What the operators of the model return *)

\* A batch of records counts for a natural number of messages.
LEMMA DeltaType ==
  ASSUME NEW b \in Seq(Records)
  PROVE  MessageCountDelta(b) \in Nat
<1> DEFINE M == {i \in DOMAIN b : b[i] = "msg"}
<1>1. IsFiniteSet(1..Len(b))
  BY FS_Interval
<1>2. IsFiniteSet(M)
  BY <1>1, FS_Subset
<1> QED
  BY <1>2, FS_CardinalityType DEF MessageCountDelta

\* The ages and the special time stay in range when the clock ticks.
LEMMA OlderType ==
  /\ Ages \subseteq Nat /\ 0 \in Ages /\ Never \notin Ages
  /\ \A t \in Ages : Older(t) \in Ages
  /\ Older(Never) = Never
BY ConfigAssumption DEF Ages, AgeCap, Never, Older

\* Merging an update into a session state gives one of the same lifecycle and
\* completion time, with data that has just been received.
LEMMA ApplyType ==
  ASSUME NEW st \in SessionState, NEW s \in Sessions, NEW b \in Seq(Records)
  PROVE  /\ applyUpdate(st, s, b) \in SessionState
         /\ applyUpdate(st, s, b).life = st.life
         /\ applyUpdate(st, s, b).done = st.done
         /\ applyUpdate(st, s, b).data = 0
<1>1. MessageCountDelta(b) \in Nat
  BY DeltaType
<1>2. SlugOf[s] \in Slugs \cup {NoSlug}
  BY DataAssumption
<1>3. CompletedIn(b) \in SUBSET Slugs
  BY DEF CompletedIn
<1>4. 0 \in Ages
  BY OlderType
<1> DEFINE n == st.msgs + MessageCountDelta(b)
           g == IF HasLines(b) THEN SlugOf[s] ELSE st.slug
           S == IF Subagents(b) # {} THEN CompletedIn(b) ELSE st.subs
           r == [st EXCEPT !.msgs = n, !.data = 0, !.slug = g, !.subs = S]
<1>5. n \in Nat /\ g \in Slugs \cup {NoSlug} /\ S \in SUBSET Slugs
  <2>1. st.msgs \in Nat /\ st.slug \in Slugs \cup {NoSlug} /\ st.subs \in SUBSET Slugs
    BY DEF SessionState
  <2>2. n \in Nat
    BY <1>1, <2>1
  <2>3. g \in Slugs \cup {NoSlug} /\ S \in SUBSET Slugs
    BY <1>2, <1>3, <2>1, Zenon
  <2> QED
    BY <2>2, <2>3
<1>6. applyUpdate(st, s, b) = r
  BY Zenon DEF applyUpdate
<1> HIDE DEF n, g, S
<1>7. r \in SessionState /\ r.life = st.life /\ r.done = st.done /\ r.data = 0
  BY <1>4, <1>5 DEF SessionState
<1> QED
  BY <1>6, <1>7, Zenon

LEMMA AbsentType ==
  /\ Absent \in SessionState
  /\ NoView \in Views
  /\ \A st \in SessionState : View(st) \in Views
BY DEF Absent, SessionState, NoView, View, Views

LEMMA AbsentFields == Absent.life = "" /\ Absent.done = Never /\ Absent.data = Never
BY DEF Absent

LEMMA NewPollType == NewPoll \in Poll
<1>1. /\ 1 \in 1..NumSources + 1
      /\ << >> \in Seq(Records) /\ << >> \in Seq(LifecycleEvents)
      /\ << >> \in Seq([source : Sources, status : Statuses])
  BY ConfigAssumption
<1>2. [s \in Sessions |-> NoView] \in [Sessions -> Views]
  BY AbsentType
<1> QED
  BY <1>1, <1>2 DEF NewPoll, Poll, NoHandle

LEMMA HealthType ==
  ASSUME NEW d \in Nat, NEW q \in Nat
  PROVE  SourceHealth(d, q) \in [discover : Nat, parse : Nat, status : Statuses]
BY DEF SourceHealth, computeStatus, Statuses

\* The events a sweep collects, whatever the order of the map iteration.
LEMMA SweepEventsType ==
  ASSUME NEW S \in SUBSET Sessions, NEW order \in SetToSeqs(S),
         NEW type \in {"discovered", "updated", "resumed", "terminal", "stale", "removed"},
         NEW from \in {"", "active", "terminal"}, NEW to \in {"", "active", "terminal"}
  PROVE  [i \in DOMAIN order |-> LifecycleEvent(type, order[i], from, to)]
           \in Seq(LifecycleEvents)
<1>1. IsFiniteSet(S)
  BY DataAssumption, FS_Subset
<1>2. PICK n \in Nat : n = Cardinality(S)
  BY <1>1, FS_CardinalityType
<1>3. order \in [1..n -> S]
  BY <1>2 DEF SetToSeqs
<1>4. \A i \in 1..n : LifecycleEvent(type, order[i], from, to) \in LifecycleEvents
  BY <1>3 DEF LifecycleEvent, LifecycleEvents
<1>5. [i \in 1..n |-> LifecycleEvent(type, order[i], from, to)]
        \in [1..n -> LifecycleEvents]
  BY <1>4
<1>6. DOMAIN order = 1..n
  BY <1>3
<1>7. ASSUME NEW f \in [1..n -> LifecycleEvents]
      PROVE  f \in Seq(LifecycleEvents)
  BY SeqDef
<1>8. [i \in 1..n |-> LifecycleEvent(type, order[i], from, to)] \in Seq(LifecycleEvents)
  BY <1>5, <1>7, Zenon
<1> QED
  BY <1>6, <1>8, Zenon

\* Each field of a poll's locals can be replaced by a value of its type.
LEMMA LocalsType ==
  ASSUME NEW l \in Poll
  PROVE  /\ \A v \in 1..NumSources + 1 : [l EXCEPT !.src = v] \in Poll
         /\ \A v \in SUBSET Handles : [l EXCEPT !.todo = v] \in Poll
         /\ \A v \in Handles \cup {NoHandle} : [l EXCEPT !.h = v] \in Poll
         /\ \A v \in Nat : [l EXCEPT !.cur = v] \in Poll
         /\ \A v \in Seq(Records) : [l EXCEPT !.batch = v] \in Poll
         /\ \A v \in Nat : [l EXCEPT !.fails = v] \in Poll
         /\ \A v \in Seq(LifecycleEvents) : [l EXCEPT !.lcs = v] \in Poll
         /\ \A v \in [Sessions -> Views] : [l EXCEPT !.upd = v] \in Poll
         /\ \A v \in SUBSET Sessions : [l EXCEPT !.rem = v] \in Poll
         /\ \A v \in Seq([source : Sources, status : Statuses]) :
              [l EXCEPT !.hev = v] \in Poll
BY DEF Poll

LEMMA SumType == \A i, j \in Nat : i + j \in Nat
OBVIOUS

LEMMA LabelsType ==
  {"source", "handles", "parse", "commit", "subagents", "retention", "emit"} \subseteq Labels
BY DEF Labels

LEMMA FieldsType ==
  ASSUME NEW l \in Poll
  PROVE  /\ l.src \in 1..NumSources + 1 /\ l.todo \in SUBSET Handles
         /\ l.h \in Handles \cup {NoHandle} /\ l.cur \in Nat
         /\ l.batch \in Seq(Records) /\ l.fails \in Nat
         /\ l.lcs \in Seq(LifecycleEvents) /\ l.upd \in [Sessions -> Views]
         /\ l.rem \in SUBSET Sessions
         /\ l.hev \in Seq([source : Sources, status : Statuses])
BY DEF Poll

\* Forget drops what concerns the handle and keeps the rest.
LEMMA ForgetType ==
  ASSUME NEW l \in Poll
  PROVE  /\ Forget(l) \in Poll
         /\ Forget(l).src = l.src /\ Forget(l).fails = l.fails
         /\ Forget(l).lcs = l.lcs /\ Forget(l).upd = l.upd
         /\ Forget(l).todo = l.todo
<1>1. NoHandle \in Handles \cup {NoHandle} /\ 0 \in Nat /\ << >> \in Seq(Records)
  OBVIOUS
<1> HIDE DEF NoHandle
<1> QED
  BY <1>1 DEF Forget, Poll

-----------------------------------------------------------------------------
(* Type correctness *)

TypeInv == TypeOK /\ LocalsInScope

LEMMA TypeInit == Init => TypeInv
<1> SUFFICES ASSUME Init PROVE TypeInv
  OBVIOUS
<1> USE DEF Init
<1>1. /\ store \in [Sessions -> SessionState]
      /\ replica \in [Sessions -> Views]
  BY AbsentType
<1>2. poll \in [Pollers -> Poll]
  BY NewPollType
<1>3. /\ seq \in 0..SeqWidth - 1
      /\ faults \in 0..MaxFaults
  BY ConfigAssumption, DataAssumption
<1>4. since \in [Sessions -> Ages]
  BY OlderType
<1>5. LocalsInScope
  BY DEF LocalsInScope
<1>6. /\ log \in [Handles -> Seq(Records)]
      /\ cursors \in [Handles -> Nat]
      /\ removed \in SUBSET Sessions
      /\ health \in [Sources -> [discover : Nat, parse : Nat, status : Statuses]]
      /\ pc \in [Pollers -> Labels]
      /\ ctx \in [Pollers -> {"live", "cancelled"}]
      /\ seen \in [Sessions -> LifecycleEvents \cup {NoEvent}]
      /\ sinkHealth \in [Sources -> Statuses]
      /\ base \in [Handles -> Nat]
      /\ lastEvent \in [Sessions -> {"none"} \cup
           {"discovered", "updated", "resumed", "terminal", "stale", "removed"}]
  BY DEF Statuses, Labels
<1> QED
  BY <1>1, <1>2, <1>3, <1>4, <1>5, <1>6 DEF TypeInv, TypeOK

\* The agents, the clock, and cancellations.
LEMMA TypeEnvironment ==
  ASSUME TypeInv, Agent \/ Tick \/ \E p \in Pollers : Cancel(p)
  PROVE  TypeInv'
<1> USE DEF TypeInv, TypeOK, LocalsInScope
<1>1. ASSUME NEW h \in Handles, NEW k \in Kinds, Write(h, k)
      PROVE  TypeInv'
  <2>1. k \in Records
    BY DataAssumption
  <2>2. Append(log[h], k) \in Seq(Records)
    BY <2>1, AppendProperties
  <2> QED
    BY <1>1, <2>2 DEF Write, coreVars, sinkVars
<1>2. CASE Tick
  <2>1. ASSUME NEW s \in Sessions
        PROVE  [store[s] EXCEPT !.done = Older(@), !.data = Older(@)] \in SessionState
    <3> DEFINE d == Older(store[s].done)
               e == Older(store[s].data)
    <3>1. store[s] \in SessionState
      BY Zenon
    <3>2. store[s].done \in Ages \cup {Never} /\ store[s].data \in Ages \cup {Never}
      BY <3>1 DEF SessionState
    <3>3. d \in Ages \cup {Never} /\ e \in Ages \cup {Never}
      BY <3>2, OlderType, Zenon
    <3> HIDE DEF d, e
    <3>4. [store[s] EXCEPT !.done = d, !.data = e] \in SessionState
      BY <3>1, <3>3 DEF SessionState
    <3> QED
      BY <3>4, Zenon DEF d, e
  <2>2. store' \in [Sessions -> SessionState]
    BY <1>2, <2>1 DEF Tick
  <2>3. since' \in [Sessions -> Ages]
    BY <1>2, OlderType DEF Tick
  <2> QED
    BY <1>2, <2>2, <2>3 DEF Tick, envVars, sinkVars
<1>3. ASSUME NEW p \in Pollers, Cancel(p)
      PROVE  TypeInv'
  BY <1>3, DataAssumption DEF Cancel, CanFail, coreVars, sinkVars
<1> QED
  BY <1>1, <1>2, <1>3 DEF Agent

\* The conjuncts of TypeInv that concern shared data, and those that concern
\* the pollers.
SharedOK ==
  /\ log \in [Handles -> Seq(Records)]
  /\ faults \in 0..MaxFaults
  /\ store \in [Sessions -> SessionState]
  /\ cursors \in [Handles -> Nat]
  /\ removed \in SUBSET Sessions
  /\ health \in [Sources -> [discover : Nat, parse : Nat, status : Statuses]]
  /\ base \in [Handles -> Nat]
  /\ since \in [Sessions -> Ages]
  /\ lastEvent \in [Sessions -> {"none"} \cup
       {"discovered", "updated", "resumed", "terminal", "stale", "removed"}]

SinkOK ==
  /\ seq \in 0..SeqWidth - 1
  /\ seen \in [Sessions -> LifecycleEvents \cup {NoEvent}]
  /\ replica \in [Sessions -> Views]
  /\ sinkHealth \in [Sources -> Statuses]

PollersOK ==
  /\ poll \in [Pollers -> Poll]
  /\ pc \in [Pollers -> Labels]
  /\ LocalsInScope

CtxOK == ctx \in [Pollers -> {"live", "cancelled"}]

LEMMA TypeInvParts ==
  /\ TypeInv <=> SharedOK /\ SinkOK /\ PollersOK /\ CtxOK
  /\ TypeInv' <=> SharedOK' /\ SinkOK' /\ PollersOK' /\ CtxOK'
BY DEF TypeInv, TypeOK, SharedOK, SinkOK, PollersOK, CtxOK

LEMMA SharedStays == SharedOK /\ UNCHANGED <<envVars, coreVars>> => SharedOK'
BY DEF SharedOK, envVars, coreVars

LEMMA FaultHappens ==
  SharedOK /\ UNCHANGED <<log, coreVars>> /\ faults > 0 /\ faults' = faults - 1 => SharedOK'
BY DataAssumption DEF SharedOK, coreVars

LEMMA SinkStays == SinkOK /\ UNCHANGED sinkVars => SinkOK'
BY DEF SinkOK, sinkVars

\* What a step of poller p has to show: the locals l it leaves are of the right
\* type, and in scope at the label k it goes to.
LEMMA MovePoller ==
  ASSUME PollersOK, NEW p \in Pollers, NEW l \in Poll, NEW k \in Labels,
         SetLocals(p, l), Goto(p, k),
         k \in {"handles", "parse", "commit"} => l.src \in Sources,
         k \in {"parse", "commit"} => l.h \in Handles
  PROVE  PollersOK'
<1>1. \A q \in Pollers : /\ poll'[q] = IF q = p THEN l ELSE poll[q]
                         /\ pc'[q] = IF q = p THEN k ELSE pc[q]
  BY DEF PollersOK, SetLocals, Goto
<1>2. LocalsInScope'
  BY <1>1 DEF PollersOK, LocalsInScope
<1> QED
  BY <1>2 DEF PollersOK, SetLocals, Goto

\* The beginning and the end of a call.
LEMMA TypeCall ==
  ASSUME TypeInv, NEW p \in Pollers, Begin(p) \/ RunDone(p) \/ ReturnErr(p) \/ Return(p)
  PROVE  TypeInv'
<1>1. PollersOK /\ SharedOK /\ SinkOK /\ CtxOK
  BY TypeInvParts
<1>2. SharedOK' /\ SinkOK'
  BY <1>1, SharedStays, SinkStays DEF Begin, RunDone, ReturnErr, Return
<1>3. CtxOK'
  BY <1>1 DEF CtxOK, Begin, RunDone, ReturnErr, Return
<1>4. SetLocals(p, poll[p]) \/ SetLocals(p, NewPoll)
  BY <1>1 DEF Begin, RunDone, ReturnErr, Return, PollersOK, SetLocals
<1>5. poll[p] \in Poll /\ NewPoll \in Poll
  BY <1>1, NewPollType DEF PollersOK
<1>6. PICK k \in {"source", "stopped", "idle"} : Goto(p, k)
  BY DEF Begin, RunDone, ReturnErr, Return
<1>7. k \in Labels /\ k \notin {"handles", "parse", "commit"}
  BY DEF Labels
<1>8. PollersOK'
  BY <1>1, <1>4, <1>5, <1>6, <1>7, MovePoller
<1> QED
  BY <1>2, <1>3, <1>8, TypeInvParts

\* What Parse returns is a batch of records.
LEMMA UnreadType ==
  ASSUME TypeInv, NEW p \in Pollers, poll[p].h \in Handles
  PROVE  Unread(p) \in Seq(Records)
<1> DEFINE w == log[poll[p].h]
<1>1. w \in Seq(Records) /\ poll[p].cur \in Nat
  BY FieldsType DEF TypeInv, TypeOK
<1>2. Len(w) \in Nat /\ \A i \in 1..Len(w) : w[i] \in Records
  BY <1>1, LenProperties, ElementOfSeq
<1> HIDE DEF w
<1>3. SubSeq(w, poll[p].cur + 1, Len(w)) \in Seq(Records)
  BY <1>1, <1>2, SubSeqProperties
<1> QED
  BY <1>3 DEF Unread, w

\* The steps of the source loop before a commit.
LEMMA TypeParse ==
  ASSUME TypeInv, NEW p \in Pollers,
         \/ Discover(p) \/ ReadCursor(p) \/ Parse(p) \/ ParseNothing(p) \/ ParseFails(p)
  PROVE  TypeInv'
<1> DEFINE l == poll[p]
<1>1. PollersOK /\ SharedOK /\ SinkOK /\ CtxOK
  BY TypeInvParts
<1>2. SharedOK'
  BY <1>1, SharedStays, FaultHappens
     DEF Discover, ReadCursor, Parse, ParseNothing, ParseFails, CanFail, envVars
<1>3. SinkOK' /\ CtxOK'
  BY <1>1, SinkStays DEF Discover, ReadCursor, Parse, ParseNothing, ParseFails, CtxOK
<1> SUFFICES PollersOK'
  BY <1>2, <1>3, TypeInvParts
<1>4. l \in Poll
  BY <1>1 DEF PollersOK
<1>5. /\ pc[p] \in {"handles", "parse", "commit"} => l.src \in Sources
      /\ pc[p] \in {"parse", "commit"} => l.h \in Handles
  BY <1>1 DEF PollersOK, LocalsInScope
<1> HIDE DEF l
<1>6. CASE Discover(p)
  <2> DEFINE T == {h \in Handles : h[1] = l.src /\ log[h] # << >>}
             m == [[l EXCEPT !.todo = T] EXCEPT !.fails = 0]
  <2>1. [l EXCEPT !.todo = T] \in Poll
    BY <1>4, LocalsType
  <2>2. m \in Poll /\ m.src = l.src
    BY <1>4, <2>1, LocalsType DEF Poll
  <2>3. SetLocals(p, m) /\ Goto(p, "handles")
    BY <1>6, Zenon DEF Discover, l
  <2>4. l.src \in Sources
    BY <1>4, <1>6, FieldsType, ConfigAssumption DEF Discover, AtSource, l, Sources
  <2> HIDE DEF m
  <2> QED
    BY <1>1, <2>2, <2>3, <2>4, MovePoller, LabelsType
<1>7. CASE ReadCursor(p)
  <2>1. PICK h \in l.todo :
           SetLocals(p, [l EXCEPT !.todo = @ \ {h}, !.h = h, !.cur = cursors[h]])
    BY <1>7, Zenon DEF ReadCursor, l
  <2> DEFINE a == [l EXCEPT !.todo = @ \ {h}]
             b == [a EXCEPT !.h = h]
             m == [b EXCEPT !.cur = cursors[h]]
  <2>2. h \in Handles /\ l.todo \ {h} \in SUBSET Handles /\ cursors[h] \in Nat
    BY <1>1, <1>4, FieldsType DEF SharedOK
  <2>3. a \in Poll /\ a.src = l.src
    BY <1>4, <2>2, LocalsType DEF Poll
  <2>4. b \in Poll /\ b.src = l.src /\ b.h = h
    BY <2>2, <2>3, LocalsType DEF Poll
  <2>5. m \in Poll /\ m.src = l.src /\ m.h = h
    BY <2>2, <2>4, LocalsType DEF Poll
  <2>6. SetLocals(p, m) /\ Goto(p, "parse")
    BY <1>7, <2>1, Zenon DEF ReadCursor
  <2>7. l.src \in Sources
    BY <1>5, <1>7 DEF ReadCursor, AtHandle
  <2> HIDE DEF m
  <2> QED
    BY <1>1, <2>2, <2>5, <2>6, <2>7, MovePoller, LabelsType
<1>8. CASE Parse(p)
  <2> DEFINE m == [l EXCEPT !.batch = Unread(p)]
  <2>1. l.src \in Sources /\ l.h \in Handles
    BY <1>5, <1>8 DEF Parse
  <2>2. m \in Poll /\ m.src = l.src /\ m.h = l.h
    BY <1>4, <2>1, UnreadType, LocalsType DEF Poll, l
  <2>3. SetLocals(p, m) /\ Goto(p, "commit")
    BY <1>8, Zenon DEF Parse, l
  <2> HIDE DEF m
  <2> QED
    BY <1>1, <2>1, <2>2, <2>3, MovePoller, LabelsType
<1>9. CASE ParseNothing(p) \/ ParseFails(p)
  <2> DEFINE f == Forget(l)
             m == [f EXCEPT !.fails = @ + 1]
  <2>1. f \in Poll /\ f.src = l.src
    BY <1>4, ForgetType
  <2> HIDE DEF f
  <2>9. f.fails + 1 \in Nat
    BY <2>1, FieldsType
  <2>2. m \in Poll /\ m.src = f.src
    BY <2>1, <2>9, LocalsType DEF Poll
  <2> HIDE DEF m
  <2>3. SetLocals(p, f) \/ SetLocals(p, m)
    BY <1>9, Zenon DEF ParseNothing, ParseFails, l, f, m
  <2>4. Goto(p, "handles")
    BY <1>9 DEF ParseNothing, ParseFails
  <2>5. l.src \in Sources
    BY <1>5, <1>9 DEF ParseNothing, ParseFails
  <2> QED
    BY <1>1, <2>1, <2>2, <2>3, <2>4, <2>5, MovePoller, LabelsType
<1> QED
  BY <1>2, <1>3, <1>6, <1>7, <1>8, <1>9, TypeInvParts

\* The health of a source, and the events it gives rise to.
LEMMA TypeHealth ==
  ASSUME TypeInv, NEW p \in Pollers, DiscoverFails(p) \/ FinishSource(p)
  PROVE  TypeInv'
<1> DEFINE l == poll[p]
           i == l.src
<1>1. PollersOK /\ SharedOK /\ SinkOK /\ CtxOK
  BY TypeInvParts
<1>2. l \in Poll /\ i \in Sources
  <2>1. l \in Poll
    BY <1>1 DEF PollersOK
  <2>2. CASE DiscoverFails(p)
    BY <2>1, <2>2, FieldsType, ConfigAssumption DEF DiscoverFails, AtSource, Sources
  <2>3. CASE FinishSource(p)
    BY <1>1, <2>3 DEF FinishSource, PollersOK, LocalsInScope
  <2> QED
    BY <2>1, <2>2, <2>3
<1>3. PICK new \in [discover : Nat, parse : Nat, status : Statuses] :
         RecordHealth(p, i, new)
  <2>1. health[i].discover \in Nat /\ health[i].parse \in Nat /\ l.fails \in Nat
    BY <1>1, <1>2, FieldsType DEF SharedOK
  <2>2. /\ SourceHealth(health[i].discover + 1, health[i].parse)
             \in [discover : Nat, parse : Nat, status : Statuses]
        /\ SourceHealth(health[i].discover, health[i].parse + l.fails)
             \in [discover : Nat, parse : Nat, status : Statuses]
        /\ SourceHealth(0, 0) \in [discover : Nat, parse : Nat, status : Statuses]
    <3>1. 0 \in Nat /\ health[i].discover + 1 \in Nat /\ health[i].parse + l.fails \in Nat
      BY <2>1
    <3> QED
      BY <2>1, <3>1, HealthType, Zenon
  <2> DEFINE new == IF l.fails > 0
                      THEN SourceHealth(health[i].discover, health[i].parse + l.fails)
                      ELSE SourceHealth(0, 0)
  <2>3. CASE DiscoverFails(p)
    BY <2>2, <2>3, Zenon DEF DiscoverFails
  <2>4. CASE FinishSource(p)
    <3>1. RecordHealth(p, i, new)
      BY <2>4, Zenon DEF FinishSource
    <3>2. new \in [discover : Nat, parse : Nat, status : Statuses]
      BY <2>2, Zenon
    <3> QED
      BY <3>1, <3>2, Zenon
  <2> QED
    BY <2>3, <2>4, Zenon
<1>4. SharedOK'
  <2>1. health' \in [Sources -> [discover : Nat, parse : Nat, status : Statuses]]
    BY <1>1, <1>3 DEF RecordHealth, SharedOK
  <2>2. faults' \in 0..MaxFaults
    BY <1>1, DataAssumption DEF DiscoverFails, FinishSource, CanFail, SharedOK
  <2> QED
    BY <1>1, <1>3, <2>1, <2>2 DEF RecordHealth, SharedOK
<1>5. SinkOK' /\ CtxOK'
  BY <1>1, <1>3, SinkStays DEF RecordHealth, CtxOK
<1>6. PollersOK'
  <2> DEFINE e == l.hev \o HealthEvents(i, new)
             a == [l EXCEPT !.src = i + 1]
             m == [a EXCEPT !.hev = e]
  <2>1. HealthEvents(i, new) \in Seq([source : Sources, status : Statuses])
    <3> DEFINE r == [source |-> i, status |-> new.status]
    <3>1. r \in [source : Sources, status : Statuses]
      BY <1>2
    <3> HIDE DEF r
    <3>2. << >> \in Seq([source : Sources, status : Statuses])
          /\ <<r>> \in Seq([source : Sources, status : Statuses])
      BY <3>1
    <3> QED
      BY <3>2, Zenon DEF HealthEvents, r
  <2>2. e \in Seq([source : Sources, status : Statuses])
    BY <1>2, <2>1, FieldsType, ConcatProperties
  <2>3. i + 1 \in 1..NumSources + 1
    BY <1>2, ConfigAssumption DEF Sources
  <2>4. a \in Poll /\ a.hev = l.hev
    BY <1>2, <2>3, LocalsType DEF Poll
  <2>5. m \in Poll
    BY <2>2, <2>4, LocalsType
  <2>6. SetLocals(p, m) /\ Goto(p, "source")
    BY <1>3, Zenon DEF RecordHealth
  <2> HIDE DEF m
  <2> QED
    BY <1>1, <2>5, <2>6, MovePoller, LabelsType
<1> QED
  BY <1>4, <1>5, <1>6, TypeInvParts

\* What every commit does to the types, whatever state it stores and whatever it
\* says of it.
LEMMA TypeCommit ==
  ASSUME TypeInv, NEW p \in Pollers, pc[p] = "commit",
         NEW st \in SessionState,
         NEW type \in {"discovered", "updated", "resumed", "terminal", "stale", "removed"},
         NEW from \in {"", "active", "terminal"},
         Commit(p, st, type, from),
         removed' \in SUBSET Sessions,
         base' \in [Handles -> Nat],
         since' \in [Sessions -> Ages]
  PROVE  TypeInv'
<1> DEFINE l == poll[p]
           h == l.h
           s == h[2]
<1>1. PollersOK /\ SharedOK /\ SinkOK /\ CtxOK
  BY TypeInvParts
<1>2. l \in Poll /\ l.src \in Sources /\ h \in Handles
  BY <1>1 DEF PollersOK, LocalsInScope
<1>3. s \in Sessions
  BY <1>2, DataAssumption
<1>4. l.cur + Len(l.batch) \in Nat
  <2>1. l.cur \in Nat /\ l.batch \in Seq(Records)
    BY <1>2, FieldsType
  <2>2. Len(l.batch) \in Nat
    BY <2>1, LenProperties
  <2> QED
    BY <2>1, <2>2, SumType, Zenon
<1>5. /\ store' = [store EXCEPT ![s] = st]
      /\ cursors' = [cursors EXCEPT ![h] = l.cur + Len(l.batch)]
      /\ lastEvent' = [lastEvent EXCEPT ![s] = type]
      /\ Goto(p, "handles")
      /\ UNCHANGED <<envVars, health, sinkVars, ctx>>
  BY Zenon DEF Commit
<1>6. SharedOK'
  <2> HIDE DEF l, h, s
  <2> QED
    BY <1>1, <1>2, <1>3, <1>4, <1>5 DEF SharedOK, envVars
<1>7. SinkOK' /\ CtxOK'
  BY <1>1, <1>5, SinkStays DEF CtxOK
<1>8. PollersOK'
  <2> DEFINE f == Forget(l)
             a == [f EXCEPT !.upd[s] = View(st)]
             e == LifecycleEvent(type, s, from, st.life)
             m == [a EXCEPT !.lcs = Append(@, e)]
  <2>1. f \in Poll /\ f.src = l.src
    BY <1>2, ForgetType
  <2>2. View(st) \in Views
    BY AbsentType
  <2>3. e \in LifecycleEvents
    BY <1>3 DEF LifecycleEvent, LifecycleEvents, SessionState
  <2>4. SetLocals(p, m)
    BY Zenon DEF Commit
  <2> HIDE DEF l, h, s, f, e
  <2>5. a \in Poll /\ a.src = f.src
    <3>1. [f.upd EXCEPT ![s] = View(st)] \in [Sessions -> Views]
      BY <1>3, <2>1, <2>2, FieldsType
    <3>2. a = [f EXCEPT !.upd = [f.upd EXCEPT ![s] = View(st)]]
      OBVIOUS
    <3> QED
      BY <2>1, <3>1, <3>2, LocalsType DEF Poll
  <2> HIDE DEF a
  <2>6. Append(a.lcs, e) \in Seq(LifecycleEvents)
    BY <2>3, <2>5, FieldsType, AppendProperties
  <2>7. m \in Poll /\ m.src = a.src
    BY <2>5, <2>6, LocalsType DEF Poll
  <2> HIDE DEF m
  <2> QED
    BY <1>1, <1>2, <1>5, <2>1, <2>4, <2>5, <2>7, MovePoller, LabelsType
<1> QED
  BY <1>6, <1>7, <1>8, TypeInvParts

\* The four ways of committing a batch: the state st it stores, the event it
\* collects and what becomes of the tombstone.
CommitOf(p, st, type) ==
  \/ /\ Existing(p).life = "" /\ st.life = "active" /\ st.done = Never
     /\ type = IF SessionAt(p) \in removed THEN "resumed" ELSE "discovered"
     /\ removed' = removed \ {SessionAt(p)} /\ since' = since
  \/ /\ Existing(p).life = "terminal" /\ st.life = "active" /\ st.done = Never
     /\ type = "resumed"
     /\ removed' = removed /\ since' = since
  \/ /\ Existing(p).life = "active" /\ st.life = "terminal" /\ st.done \in Ages
     /\ type = "terminal"
     /\ removed' = removed /\ since' = [since EXCEPT ![SessionAt(p)] = st.done]
  \/ /\ Existing(p).life = "active" /\ st.life = "active" /\ st.done = Existing(p).done
     /\ type = "updated"
     /\ removed' = removed /\ since' = since

LEMMA CommitCases ==
  ASSUME TypeInv, NEW p \in Pollers,
         CommitNew(p) \/ CommitResumed(p) \/ CommitTerminal(p) \/ CommitUpdated(p)
  PROVE  /\ pc[p] = "commit" /\ SessionAt(p) \in Sessions /\ poll[p].h \in Handles
         /\ base' \in [Handles -> Nat] /\ since' \in [Sessions -> Ages]
         /\ removed' \in SUBSET Sessions
         /\ \E st \in SessionState,
               type \in {"discovered", "updated", "resumed", "terminal"},
               from \in {"", "active", "terminal"} :
              Commit(p, st, type, from) /\ st.data = 0 /\ CommitOf(p, st, type)
<1> DEFINE s == SessionAt(p)
           b == poll[p].batch
           Goal == \E st \in SessionState,
                     type \in {"discovered", "updated", "resumed", "terminal"},
                     from \in {"", "active", "terminal"} :
                     Commit(p, st, type, from) /\ st.data = 0 /\ CommitOf(p, st, type)
<1>1. pc[p] = "commit"
  BY DEF CommitNew, CommitResumed, CommitTerminal, CommitUpdated, Finds
<1>2. PollersOK /\ SharedOK
  BY TypeInvParts
<1>3. poll[p] \in Poll /\ poll[p].h \in Handles
  BY <1>1, <1>2 DEF PollersOK, LocalsInScope
<1>4. s \in Sessions /\ b \in Seq(Records) /\ Existing(p) \in SessionState
  BY <1>2, <1>3, FieldsType, DataAssumption DEF SessionAt, Existing, SharedOK
<1>5. poll[p].cur \in Nat
  BY <1>3, FieldsType
<1>6. base' \in [Handles -> Nat]
  BY <1>2, <1>5 DEF SharedOK, CommitNew, CommitResumed, CommitTerminal, CommitUpdated
<1>7. since' \in [Sessions -> Ages]
  BY <1>2, OlderType, ConfigAssumption
     DEF SharedOK, CommitNew, CommitResumed, CommitTerminal, CommitUpdated
<1>8. removed' \in SUBSET Sessions
  BY <1>2 DEF SharedOK, CommitNew, CommitResumed, CommitTerminal, CommitUpdated
<1>9. \A st \in SessionState :
        /\ Applied(p, st) \in SessionState /\ Applied(p, st).data = 0
        /\ Applied(p, st).life = st.life /\ Applied(p, st).done = st.done
  BY <1>4, ApplyType, Zenon DEF Applied
<1>10. CASE CommitNew(p)
  <2> DEFINE new == [Absent EXCEPT !.life = "active"]
             st == Applied(p, new)
  <2>1. new \in SessionState /\ new.life = "active" /\ new.done = Never
    BY AbsentType DEF Absent, SessionState
  <2> HIDE DEF new
  <2>2. st \in SessionState /\ st.data = 0 /\ st.life = "active" /\ st.done = Never
    BY <1>9, <2>1
  <2>3. Existing(p).life = "" /\ removed' = removed \ {s} /\ since' = since
    BY <1>10 DEF CommitNew, Finds
  <2>4. \/ s \in removed /\ Commit(p, st, "resumed", "terminal")
        \/ s \notin removed /\ Commit(p, st, "discovered", "")
    BY <1>10, Zenon DEF CommitNew, new
  <2> HIDE DEF st
  <2>5. ASSUME s \in removed, Commit(p, st, "resumed", "terminal")
        PROVE  Goal
    <3>1. CommitOf(p, st, "resumed")
      BY <2>2, <2>3, <2>5 DEF CommitOf
    <3> QED
      BY <2>2, <2>5, <3>1
  <2>6. ASSUME s \notin removed, Commit(p, st, "discovered", "")
        PROVE  Goal
    <3>1. CommitOf(p, st, "discovered")
      BY <2>2, <2>3, <2>6 DEF CommitOf
    <3> QED
      BY <2>2, <2>6, <3>1
  <2>7. Goal
    BY <2>4, <2>5, <2>6
  <2> QED
    BY <1>1, <1>3, <1>4, <1>6, <1>7, <1>8, <2>7
<1>11. CASE CommitResumed(p)
  <2> DEFINE a == Applied(p, Existing(p))
             st == [a EXCEPT !.life = "active", !.done = Never]
  <2>1. a \in SessionState /\ a.data = 0
    BY <1>4, <1>9
  <2>2. Commit(p, st, "resumed", "terminal")
    BY <1>11, Zenon DEF CommitResumed
  <2> HIDE DEF a
  <2>3. st \in SessionState /\ st.data = 0 /\ st.life = "active" /\ st.done = Never
    BY <2>1 DEF SessionState
  <2> HIDE DEF st
  <2>4. CommitOf(p, st, "resumed")
    BY <1>11, <2>3 DEF CommitOf, CommitResumed, Finds
  <2>5. Goal
    BY <2>2, <2>3, <2>4
  <2> QED
    BY <1>1, <1>3, <1>4, <1>6, <1>7, <1>8, <2>5
<1>12. CASE CommitTerminal(p)
  <2>1. PICK age \in EndedAges \cup {0} :
           /\ Commit(p, [Applied(p, Existing(p)) EXCEPT !.life = "terminal", !.done = age],
                     "terminal", "active")
           /\ since' = [since EXCEPT ![s] = age]
    BY <1>12, Zenon DEF CommitTerminal
  <2> DEFINE a == Applied(p, Existing(p))
             st == [a EXCEPT !.life = "terminal", !.done = age]
  <2>2. a \in SessionState /\ a.data = 0
    BY <1>4, <1>9
  <2>3. age \in Ages
    BY OlderType, ConfigAssumption
  <2>4. Commit(p, st, "terminal", "active")
    BY <2>1, Zenon
  <2> HIDE DEF a
  <2>5. st \in SessionState /\ st.data = 0 /\ st.life = "terminal" /\ st.done = age
    BY <2>2, <2>3 DEF SessionState
  <2> HIDE DEF st
  <2>6. CommitOf(p, st, "terminal")
    BY <1>12, <2>1, <2>3, <2>5 DEF CommitOf, CommitTerminal, Finds
  <2>7. Goal
    BY <2>4, <2>5, <2>6
  <2> QED
    BY <1>1, <1>3, <1>4, <1>6, <1>7, <1>8, <2>7
<1>13. CASE CommitUpdated(p)
  <2> DEFINE st == Applied(p, Existing(p))
  <2>1. Existing(p).life = "active" /\ removed' = removed /\ since' = since
    BY <1>13 DEF CommitUpdated, Finds
  <2>2. /\ st \in SessionState /\ st.data = 0
        /\ st.life = "active" /\ st.done = Existing(p).done
    BY <1>4, <1>9, <2>1
  <2>3. Commit(p, st, "updated", "active")
    BY <1>13, Zenon DEF CommitUpdated
  <2> HIDE DEF st
  <2>4. CommitOf(p, st, "updated")
    BY <2>1, <2>2 DEF CommitOf
  <2>5. Goal
    BY <2>2, <2>3, <2>4
  <2> QED
    BY <1>1, <1>3, <1>4, <1>6, <1>7, <1>8, <2>5
<1> QED
  BY <1>10, <1>11, <1>12, <1>13

LEMMA TypeCommits ==
  ASSUME TypeInv, NEW p \in Pollers,
         CommitNew(p) \/ CommitResumed(p) \/ CommitTerminal(p) \/ CommitUpdated(p)
  PROVE  TypeInv'
<1>1. PICK st \in SessionState,
           type \in {"discovered", "updated", "resumed", "terminal"},
           from \in {"", "active", "terminal"} : Commit(p, st, type, from)
  BY CommitCases, Zenon
<1>2. type \in {"discovered", "updated", "resumed", "terminal", "stale", "removed"}
  OBVIOUS
<1>3. /\ pc[p] = "commit" /\ removed' \in SUBSET Sessions
      /\ base' \in [Handles -> Nat] /\ since' \in [Sessions -> Ages]
  BY CommitCases, Zenon
<1> QED
  BY <1>1, <1>2, <1>3, TypeCommit, Zenon

\* A sweep keeps the types: the states it leaves, the sessions it touches.
LEMMA TypeTerminate ==
  ASSUME TypeInv, NEW p \in Pollers, StaleSweep(p) \/ SubagentSweep(p)
  PROVE  TypeInv'
<1> DEFINE l == poll[p]
<1>1. PollersOK /\ SharedOK /\ SinkOK /\ CtxOK
  BY TypeInvParts
<1>2. PICK S \in SUBSET Sessions, type \in {"stale", "terminal"} : Terminate(p, S, type)
  BY Zenon DEF StaleSweep, SubagentSweep, StaleSessions, CompletedChildren
<1>3. PICK k \in {"subagents", "retention"} : Goto(p, k)
  BY DEF StaleSweep, SubagentSweep
<1>4. \A s \in Sessions : [store[s] EXCEPT !.life = "terminal", !.done = 0] \in SessionState
  <2> SUFFICES ASSUME NEW s \in Sessions
               PROVE  [store[s] EXCEPT !.life = "terminal", !.done = 0] \in SessionState
    OBVIOUS
  <2> DEFINE st == store[s]
  <2>1. st \in SessionState /\ 0 \in Ages
    BY <1>1, OlderType DEF SharedOK
  <2> HIDE DEF st
  <2>2. [st EXCEPT !.life = "terminal", !.done = 0] \in SessionState
    BY <2>1 DEF SessionState
  <2> QED
    BY <2>2 DEF st
<1>5. SharedOK'
  <2>1. store' \in [Sessions -> SessionState]
    BY <1>1, <1>2, <1>4 DEF SharedOK, Terminate
  <2>2. since' \in [Sessions -> Ages]
    BY <1>1, <1>2, OlderType DEF SharedOK, Terminate
  <2>3. lastEvent' \in [Sessions -> {"none"} \cup
          {"discovered", "updated", "resumed", "terminal", "stale", "removed"}]
    BY <1>1, <1>2 DEF SharedOK, Terminate
  <2> QED
    BY <1>1, <1>2, <2>1, <2>2, <2>3 DEF SharedOK, Terminate, envVars
<1>6. SinkOK' /\ CtxOK'
  BY <1>1, <1>2, SinkStays DEF Terminate, CtxOK
<1>7. PollersOK'
  <2>1. PICK order \in SetToSeqs(S) :
          SetLocals(p, [poll[p] EXCEPT
            !.upd = [s \in Sessions |->
                       IF s \in S THEN [View(store[s]) EXCEPT !.life = "terminal"]
                       ELSE @[s]],
            !.lcs = @ \o [i \in DOMAIN order |->
                       LifecycleEvent(type, order[i], "active", "terminal")]])
    BY <1>2, Zenon DEF Terminate
  <2> DEFINE u == [s \in Sessions |->
                     IF s \in S THEN [View(store[s]) EXCEPT !.life = "terminal"]
                     ELSE l.upd[s]]
             e == [i \in DOMAIN order |-> LifecycleEvent(type, order[i], "active", "terminal")]
             a == [l EXCEPT !.upd = u]
             m == [a EXCEPT !.lcs = @ \o e]
  <2>2. SetLocals(p, m)
    BY <2>1, Zenon
  <2>3. l \in Poll
    BY <1>1 DEF PollersOK
  <2>4. u \in [Sessions -> Views]
    <3>1. \A s \in Sessions : [View(store[s]) EXCEPT !.life = "terminal"] \in Views
      BY <1>1 DEF SharedOK, View, Views, SessionState
    <3>2. l.upd \in [Sessions -> Views]
      BY <2>3, FieldsType
    <3> QED
      BY <3>1, <3>2
  <2>5. e \in Seq(LifecycleEvents)
    BY SweepEventsType
  <2> HIDE DEF l, u, e
  <2>6. a \in Poll
    BY <2>3, <2>4, LocalsType
  <2> HIDE DEF a
  <2>7. a.lcs \o e \in Seq(LifecycleEvents)
    BY <2>5, <2>6, FieldsType, ConcatProperties
  <2>8. m \in Poll
    BY <2>6, <2>7, LocalsType
  <2> HIDE DEF m
  <2> QED
    BY <1>1, <1>3, <2>2, <2>8, MovePoller, LabelsType
<1> QED
  BY <1>5, <1>6, <1>7, TypeInvParts

LEMMA TypeRetention ==
  ASSUME TypeInv, NEW p \in Pollers, RetentionSweep(p)
  PROVE  TypeInv'
<1> DEFINE l == poll[p]
           S == ExpiredSessions
<1>1. PollersOK /\ SharedOK /\ SinkOK /\ CtxOK
  BY TypeInvParts
<1>2. S \in SUBSET Sessions
  BY DEF ExpiredSessions
<1>3. SharedOK'
  <2>1. store' \in [Sessions -> SessionState]
    BY <1>1, AbsentType DEF SharedOK, RetentionSweep
  <2>2. lastEvent' \in [Sessions -> {"none"} \cup
          {"discovered", "updated", "resumed", "terminal", "stale", "removed"}]
    BY <1>1 DEF SharedOK, RetentionSweep
  <2>3. removed' \in SUBSET Sessions
    BY <1>1, <1>2 DEF SharedOK, RetentionSweep
  <2> QED
    BY <1>1, <2>1, <2>2, <2>3 DEF SharedOK, RetentionSweep, envVars
<1>4. SinkOK' /\ CtxOK'
  BY <1>1, SinkStays DEF RetentionSweep, CtxOK
<1>5. PollersOK'
  <2>1. PICK order \in SetToSeqs(S) :
          SetLocals(p, [poll[p] EXCEPT
            !.rem = S,
            !.lcs = @ \o [i \in DOMAIN order |->
                       LifecycleEvent("removed", order[i], "terminal", "")]])
    BY Zenon DEF RetentionSweep
  <2> DEFINE e == [i \in DOMAIN order |-> LifecycleEvent("removed", order[i], "terminal", "")]
             a == [l EXCEPT !.rem = S]
             m == [a EXCEPT !.lcs = @ \o e]
  <2>2. SetLocals(p, m)
    BY <2>1, Zenon
  <2>3. l \in Poll
    BY <1>1 DEF PollersOK
  <2>4. e \in Seq(LifecycleEvents)
    BY <1>2, SweepEventsType
  <2> HIDE DEF l, S, e
  <2>5. a \in Poll
    BY <1>2, <2>3, LocalsType
  <2> HIDE DEF a
  <2>6. a.lcs \o e \in Seq(LifecycleEvents)
    BY <2>4, <2>5, FieldsType, ConcatProperties
  <2>7. m \in Poll
    BY <2>5, <2>6, LocalsType
  <2>8. Goto(p, "emit")
    BY DEF RetentionSweep
  <2> HIDE DEF m
  <2> QED
    BY <1>1, <2>2, <2>7, <2>8, MovePoller, LabelsType
<1> QED
  BY <1>3, <1>4, <1>5, TypeInvParts

\* Delivery: the sink's variables take what is at the head of the queues.
LEMMA TypeEmit ==
  ASSUME TypeInv, NEW p \in Pollers, EmitLifecycle(p) \/ EmitDelta(p) \/ EmitHealth(p)
  PROVE  TypeInv'
<1> DEFINE l == poll[p]
<1>1. PollersOK /\ SharedOK /\ SinkOK /\ CtxOK
  BY TypeInvParts
<1>2. Emit(p)
  BY DEF EmitLifecycle, EmitDelta, EmitHealth
<1>3. SharedOK' /\ CtxOK'
  BY <1>1, <1>2, SharedStays DEF Emit, CtxOK
<1>4. l \in Poll
  BY <1>1 DEF PollersOK
<1>5. seq' \in 0..SeqWidth - 1
  <2>1. seq + 1 \in Nat /\ SeqWidth \in Nat /\ SeqWidth > 0
    BY <1>1, ConfigAssumption DEF SinkOK
  <2> QED
    BY <1>2, <2>1 DEF Emit
<1>6. PollersOK' \* the label stays, so only the type of the locals matters
  <2>1. ASSUME NEW m \in Poll, SetLocals(p, m), pc[p] = "emit"
        PROVE  PollersOK'
    <3>1. Goto(p, "emit")
      BY <1>1, <1>2, <2>1 DEF Emit, Goto, PollersOK
    <3> QED
      BY <1>1, <2>1, <3>1, MovePoller, LabelsType
  <2>2. pc[p] = "emit"
    BY <1>2 DEF Emit
  <2>3. CASE EmitLifecycle(p)
    <3>1. l.lcs \in Seq(LifecycleEvents) /\ l.lcs # << >>
      BY <1>4, <2>3, FieldsType DEF EmitLifecycle
    <3>2. Tail(l.lcs) \in Seq(LifecycleEvents)
      BY <3>1, HeadTailProperties
    <3>3. SetLocals(p, [l EXCEPT !.lcs = Tail(@)])
      BY <2>3, Zenon DEF EmitLifecycle
    <3> QED
      BY <1>4, <2>1, <2>2, <3>2, <3>3, LocalsType
  <2>4. CASE EmitHealth(p)
    <3>1. l.hev \in Seq([source : Sources, status : Statuses]) /\ l.hev # << >>
      BY <1>4, <2>4, FieldsType DEF EmitHealth
    <3>2. Tail(l.hev) \in Seq([source : Sources, status : Statuses])
      BY <3>1, HeadTailProperties
    <3>3. SetLocals(p, [l EXCEPT !.hev = Tail(@)])
      BY <2>4, Zenon DEF EmitHealth
    <3> QED
      BY <1>4, <2>1, <2>2, <3>2, <3>3, LocalsType
  <2>5. CASE EmitDelta(p)
    <3> DEFINE a == [l EXCEPT !.upd = NewPoll.upd]
               m == [a EXCEPT !.rem = {}]
    <3>1. NewPoll.upd \in [Sessions -> Views]
      BY NewPollType, FieldsType
    <3>2. a \in Poll
      BY <1>4, <3>1, LocalsType
    <3>3. SetLocals(p, m)
      BY <2>5, Zenon DEF EmitDelta
    <3> HIDE DEF l, a
    <3>4. m \in Poll
      BY <3>2, LocalsType
    <3> HIDE DEF m
    <3> QED
      BY <2>1, <2>2, <3>3, <3>4
  <2> QED
    BY <2>3, <2>4, <2>5
<1>7. SinkOK'
  <2>1. CASE EmitLifecycle(p)
    <3>1. Head(l.lcs) \in LifecycleEvents
      BY <1>4, <2>1, FieldsType, HeadTailProperties DEF EmitLifecycle
    <3>2. /\ seen' = [seen EXCEPT ![Head(l.lcs).id] = Head(l.lcs)]
          /\ UNCHANGED <<replica, sinkHealth>>
      BY <2>1 DEF EmitLifecycle
    <3> HIDE DEF l
    <3> QED
      BY <1>1, <1>5, <3>1, <3>2 DEF SinkOK
  <2>2. CASE EmitHealth(p)
    <3>1. Head(l.hev) \in [source : Sources, status : Statuses]
      BY <1>4, <2>2, FieldsType, HeadTailProperties DEF EmitHealth
    <3>2. /\ sinkHealth' = [sinkHealth EXCEPT ![Head(l.hev).source] = Head(l.hev).status]
          /\ UNCHANGED <<replica, seen>>
      BY <2>2 DEF EmitHealth
    <3> HIDE DEF l
    <3> QED
      BY <1>1, <1>5, <3>1, <3>2 DEF SinkOK
  <2>3. CASE EmitDelta(p)
    <3>1. l.upd \in [Sessions -> Views]
      BY <1>4, FieldsType
    <3>2. replica' \in [Sessions -> Views]
      BY <1>1, <2>3, <3>1, AbsentType DEF EmitDelta, SinkOK
    <3>3. UNCHANGED <<seen, sinkHealth>>
      BY <2>3 DEF EmitDelta
    <3> QED
      BY <1>1, <1>5, <3>2, <3>3 DEF SinkOK
  <2> QED
    BY <2>1, <2>2, <2>3
<1> QED
  BY <1>3, <1>6, <1>7, TypeInvParts

\* Type correctness is inductive.
LEMMA TypeStep == TypeInv /\ [Next]_vars => TypeInv'
<1> SUFFICES ASSUME TypeInv, [Next]_vars PROVE TypeInv'
  OBVIOUS
<1>1. CASE UNCHANGED vars
  BY <1>1 DEF TypeInv, TypeOK, LocalsInScope, vars, envVars, coreVars, sinkVars
<1>2. CASE Agent \/ Tick \/ \E p \in Pollers : Cancel(p)
  BY <1>2, TypeEnvironment
<1>3. ASSUME NEW p \in Pollers, Poller(p)
      PROVE  TypeInv'
  BY <1>3, TypeCall, TypeParse, TypeHealth, TypeCommits, TypeTerminate, TypeRetention,
     TypeEmit DEF Poller, PollLoop, SweepAndEmit
<1> QED
  BY <1>1, <1>2, <1>3 DEF Next

\* However many goroutines call PollOnce, every variable keeps its type, and the
\* handle and the source a call works on are in scope where it uses them.
THEOREM TypeCorrect == Spec => []TypeOK
<1>1. TypeInv => TypeOK
  BY DEF TypeInv
<1> QED
  BY TypeInit, TypeStep, <1>1, PTL DEF Spec

-----------------------------------------------------------------------------
(* The consistency of the store *)

\* What StoreConsistent says of one session.
SessionConsistent(s) ==
  /\ (store[s].done # Never) <=> (store[s].life = "terminal")
  /\ s \in removed => store[s] = Absent
  /\ IF Tracked(s) THEN store[s].data # Never ELSE store[s] = Absent

LEMMA ConsistentBySession ==
  ASSUME TypeInv, TypeInv'
  PROVE  /\ StoreConsistent <=> \A s \in Sessions : SessionConsistent(s)
         /\ StoreConsistent' <=> \A s \in Sessions : SessionConsistent(s)'
<1>1. removed \in SUBSET Sessions /\ removed' \in SUBSET Sessions
  BY DEF TypeInv, TypeOK
<1> QED
  BY <1>1 DEF StoreConsistent, CompletedIffTerminal, TombstoneIsGone, TrackedHasData,
              SessionConsistent

\* The steps of PollOnce that do not touch the store.
Bystander(p) ==
  \/ Begin(p) \/ RunDone(p) \/ ReturnErr(p) \/ Discover(p) \/ DiscoverFails(p)
  \/ ReadCursor(p) \/ Parse(p) \/ ParseNothing(p) \/ ParseFails(p) \/ FinishSource(p)
  \/ EmitLifecycle(p) \/ EmitDelta(p) \/ EmitHealth(p) \/ Return(p)

LEMMA BystanderLeaves ==
  ASSUME NEW p \in Pollers, Bystander(p)
  PROVE  UNCHANGED <<store, removed, lastEvent>>
BY DEF Bystander, Begin, RunDone, ReturnErr, Discover, DiscoverFails, ReadCursor, Parse,
       ParseNothing, ParseFails, FinishSource, EmitLifecycle, EmitDelta, EmitHealth, Return,
       RecordHealth, Emit, coreVars

LEMMA OtherLeaves ==
  ASSUME Agent \/ (\E p \in Pollers : Cancel(p)) \/ UNCHANGED vars
  PROVE  UNCHANGED <<store, removed, lastEvent>>
BY DEF Agent, Write, Cancel, coreVars, vars

\* The clock ages the times of a state and leaves the rest of it.
LEMMA TickAges ==
  ASSUME TypeInv, Tick, NEW s \in Sessions
  PROVE  /\ store'[s].life = store[s].life
         /\ store'[s].done = Never <=> store[s].done = Never
         /\ store'[s].data = Never <=> store[s].data = Never
         /\ store[s] = Absent => store'[s] = Absent
         /\ UNCHANGED <<removed, lastEvent>>
<1> DEFINE st == store[s]
           d  == Older(st.done)
           e  == Older(st.data)
<1>1. st \in SessionState
  BY DEF TypeInv, TypeOK
<1>2. store'[s] = [st EXCEPT !.done = d, !.data = e]
  BY Zenon DEF Tick
<1>3. st.done \in Ages \cup {Never} /\ st.data \in Ages \cup {Never}
  BY <1>1 DEF SessionState
<1>4. (d = Never <=> st.done = Never) /\ (e = Never <=> st.data = Never)
  BY <1>3, OlderType, Zenon
<1> HIDE DEF st, d, e
<1>5. /\ store'[s].life = st.life /\ store'[s].done = d /\ store'[s].data = e
  BY <1>1, <1>2 DEF SessionState
<1>6. st = Absent => store'[s] = Absent
  <2> SUFFICES ASSUME st = Absent PROVE store'[s] = Absent
    OBVIOUS
  <2>1. d = Never /\ e = Never
    BY <1>4 DEF Absent
  <2> QED
    BY <1>2, <2>1 DEF Absent
<1>7. UNCHANGED <<removed, lastEvent>>
  BY DEF Tick
<1> QED
  BY <1>4, <1>5, <1>6, <1>7, Zenon DEF st

\* A commit stores one state and leaves the other sessions alone.
LEMMA CommitStores ==
  ASSUME TypeInv, NEW p \in Pollers,
         CommitNew(p) \/ CommitResumed(p) \/ CommitTerminal(p) \/ CommitUpdated(p)
  PROVE  /\ SessionAt(p) \in Sessions
         /\ \E st \in SessionState, type \in {"discovered", "updated", "resumed", "terminal"} :
              /\ store' = [store EXCEPT ![SessionAt(p)] = st]
              /\ lastEvent' = [lastEvent EXCEPT ![SessionAt(p)] = type]
              /\ st.data = 0
              /\ CommitOf(p, st, type)
<1>1. PICK st \in SessionState,
           type \in {"discovered", "updated", "resumed", "terminal"},
           from \in {"", "active", "terminal"} :
             Commit(p, st, type, from) /\ st.data = 0 /\ CommitOf(p, st, type)
  BY CommitCases, Zenon
<1>2. /\ store' = [store EXCEPT ![SessionAt(p)] = st]
      /\ lastEvent' = [lastEvent EXCEPT ![SessionAt(p)] = type]
  BY <1>1, Zenon DEF Commit, SessionAt
<1>3. SessionAt(p) \in Sessions
  BY CommitCases
<1> QED
  BY <1>1, <1>2, <1>3, Zenon

\* The two sweeps that terminate only touch active sessions.
LEMMA SweepTerminates ==
  ASSUME NEW p \in Pollers, StaleSweep(p) \/ SubagentSweep(p)
  PROVE  \E S \in SUBSET Sessions, type \in {"stale", "terminal"} :
           /\ \A s \in S : Active(s)
           /\ store' = [s \in Sessions |->
                 IF s \in S THEN [store[s] EXCEPT !.life = "terminal", !.done = 0]
                 ELSE store[s]]
           /\ lastEvent' = [s \in Sessions |-> IF s \in S THEN type ELSE lastEvent[s]]
           /\ UNCHANGED removed
<1>1. CASE StaleSweep(p)
  <2>1. StaleSessions \in SUBSET Sessions /\ \A s \in StaleSessions : Active(s)
    BY DEF StaleSessions
  <2> QED
    BY <1>1, <2>1, Zenon DEF StaleSweep, Terminate
<1>2. CASE SubagentSweep(p)
  <2>1. CompletedChildren \in SUBSET Sessions /\ \A s \in CompletedChildren : Active(s)
    BY DEF CompletedChildren
  <2> QED
    BY <1>2, <2>1, Zenon DEF SubagentSweep, Terminate
<1> QED
  BY <1>1, <1>2

LEMMA StoreInit ==
  Init => removed = {} /\ \A s \in Sessions : store[s] = Absent /\ lastEvent[s] = "none"
BY DEF Init

LEMMA ConsistentInit == Init => StoreConsistent
<1> SUFFICES ASSUME Init PROVE StoreConsistent
  OBVIOUS
<1>1. TombstoneIsGone
  BY StoreInit DEF TombstoneIsGone
<1>2. CompletedIffTerminal /\ TrackedHasData
  BY StoreInit, AbsentFields DEF CompletedIffTerminal, TrackedHasData, Tracked
<1> QED
  BY <1>1, <1>2 DEF StoreConsistent

LEMMA ConsistentStep ==
  TypeInv /\ TypeInv' /\ StoreConsistent /\ [Next]_vars => StoreConsistent'
<1> SUFFICES ASSUME TypeInv, TypeInv', StoreConsistent, [Next]_vars, NEW s \in Sessions
             PROVE  SessionConsistent(s)'
  BY ConsistentBySession
<1>1. SessionConsistent(s) /\ store[s] \in SessionState /\ store \in [Sessions -> SessionState]
  BY ConsistentBySession DEF TypeInv, TypeOK
<1>2. UNCHANGED <<store, removed, lastEvent>> => SessionConsistent(s)'
  BY <1>1 DEF SessionConsistent, Tracked
<1>3. CASE Tick
  BY <1>1, <1>3, TickAges DEF SessionConsistent, Tracked
<1>4. ASSUME NEW p \in Pollers,
             CommitNew(p) \/ CommitResumed(p) \/ CommitTerminal(p) \/ CommitUpdated(p)
      PROVE  SessionConsistent(s)'
  <2>1. PICK st \in SessionState, type \in {"discovered", "updated", "resumed", "terminal"} :
           /\ store' = [store EXCEPT ![SessionAt(p)] = st]
           /\ st.data = 0
           /\ CommitOf(p, st, type)
    BY <1>4, CommitStores, Zenon
  <2>2. store'[s] = IF s = SessionAt(p) THEN st ELSE store[s]
    BY <1>1, <2>1
  <2>3. 0 # Never /\ Never \notin Ages
    BY OlderType
  <2>4. CASE s = SessionAt(p)
    <3>1. store'[s] = st /\ store[s] = Existing(p)
      BY <2>2, <2>4 DEF Existing
    <3>2. st.life \in {"active", "terminal"} /\ (st.done # Never <=> st.life = "terminal")
      BY <1>1, <2>1, <2>3, <3>1 DEF CommitOf, SessionConsistent
    <3>3. s \notin removed'
      BY <1>1, <2>1, <2>4, <3>1, AbsentFields DEF CommitOf, SessionConsistent
    <3> QED
      BY <2>1, <2>3, <3>1, <3>2, <3>3 DEF SessionConsistent, Tracked
  <2>5. CASE s # SessionAt(p)
    <3>1. store'[s] = store[s] /\ (s \in removed' <=> s \in removed)
      BY <2>1, <2>2, <2>5 DEF CommitOf
    <3> QED
      BY <1>1, <3>1 DEF SessionConsistent, Tracked
  <2> QED
    BY <2>4, <2>5
<1>5. ASSUME NEW p \in Pollers, StaleSweep(p) \/ SubagentSweep(p)
      PROVE  SessionConsistent(s)'
  <2>1. PICK S \in SUBSET Sessions :
           /\ \A t \in S : Active(t)
           /\ store' = [t \in Sessions |->
                 IF t \in S THEN [store[t] EXCEPT !.life = "terminal", !.done = 0]
                 ELSE store[t]]
           /\ UNCHANGED removed
    BY <1>5, SweepTerminates, Zenon
  <2>2. CASE s \in S
    <3>1. store'[s] = [store[s] EXCEPT !.life = "terminal", !.done = 0]
      BY <2>1, <2>2
    <3>2. store'[s].life = "terminal" /\ store'[s].done = 0 /\ store'[s].data = store[s].data
      BY <1>1, <3>1 DEF SessionState
    <3>3. store[s].life = "active" /\ s \notin removed
      BY <1>1, <2>1, <2>2, AbsentFields DEF Active, SessionConsistent
    <3>4. 0 # Never
      BY OlderType
    <3> QED
      BY <1>1, <2>1, <3>2, <3>3, <3>4 DEF SessionConsistent, Tracked
  <2>3. CASE s \notin S
    <3>1. store'[s] = store[s]
      BY <2>1, <2>3
    <3> QED
      BY <1>1, <2>1, <3>1 DEF SessionConsistent, Tracked
  <2> QED
    BY <2>2, <2>3
<1>6. ASSUME NEW p \in Pollers, RetentionSweep(p)
      PROVE  SessionConsistent(s)'
  <2>1. /\ store'[s] = IF s \in ExpiredSessions THEN Absent ELSE store[s]
        /\ s \in removed' <=> s \in removed \/ s \in ExpiredSessions
    BY <1>6 DEF RetentionSweep
  <2> QED
    BY <1>1, <2>1, AbsentFields DEF SessionConsistent, Tracked
<1> QED
  BY <1>2, <1>3, <1>4, <1>5, <1>6, BystanderLeaves, OtherLeaves
     DEF Next, Poller, PollLoop, SweepAndEmit, Bystander

\* However many goroutines poll at the same time, the store never contradicts
\* itself: the critical sections of PollOnce are small, but each of them leaves
\* completion times, tombstones and lifecycle states in agreement.
THEOREM StoreIsConsistent == Spec => []StoreConsistent
BY TypeInit, TypeStep, ConsistentInit, ConsistentStep, PTL DEF Spec

-----------------------------------------------------------------------------
(* The store implements SessionLifecycle *)

LEMMA LifecycleInit == Init => Committed!Init
<1> SUFFICES ASSUME Init PROVE Committed!Init
  OBVIOUS
<1>1. \A s \in Sessions : StateOf(s) = "untracked"
  BY StoreInit, AbsentFields DEF StateOf, Tracked
<1>2. lastEvent = [s \in Sessions |-> "none"]
  BY DEF Init
<1> QED
  BY <1>1, <1>2 DEF Committed!Init

\* A step of the store is a step of SessionLifecycle if every session stays or
\* makes one of the moves.
LEMMA LifecycleBySession ==
  ASSUME TypeInv', 
         \A s \in Sessions : Committed!Stays(s) \/ Committed!Moves(s)
  PROVE  Committed!Next
<1>1. [s \in Sessions |-> StateOf(s)]' \in [Sessions -> Committed!States]
  BY DEF TypeInv, TypeOK, SessionState, StateOf, Tracked, Committed!States
<1>2. lastEvent' \in [Sessions -> Committed!Events]
  BY DEF TypeInv, TypeOK, Committed!Events
<1> QED
  BY <1>1, <1>2 DEF Committed!Next

\* A session whose state and event stay does not move.
LEMMA SessionStays ==
  ASSUME NEW s \in Sessions, StateOf(s)' = StateOf(s), lastEvent'[s] = lastEvent[s]
  PROVE  Committed!Stays(s)
BY DEF Committed!Stays

LEMMA SessionMoves ==
  ASSUME NEW s \in Sessions,
         NEW from, NEW to, NEW ev,
         <<from, to, ev>> \in
           {<<"untracked", "active", "discovered">>, <<"active", "active", "updated">>,
            <<"active", "terminal", "terminal">>, <<"active", "terminal", "stale">>,
            <<"terminal", "active", "resumed">>, <<"removed", "active", "resumed">>,
            <<"terminal", "removed", "removed">>},
         StateOf(s) = from, StateOf(s)' = to, lastEvent'[s] = ev
  PROVE  Committed!Moves(s)
BY DEF Committed!Moves, Committed!Move, Committed!Discovered, Committed!Updated,
       Committed!Ended, Committed!WentStale, Committed!Resumed, Committed!Expired

LEMMA LifecycleStep ==
  TypeInv /\ TypeInv' /\ StoreConsistent /\ [Next]_vars
    => [Committed!Next]_<<[s \in Sessions |-> StateOf(s)], lastEvent>>
<1> SUFFICES ASSUME TypeInv, TypeInv', StoreConsistent, [Next]_vars
             PROVE  \A s \in Sessions : Committed!Stays(s) \/ Committed!Moves(s)
  BY LifecycleBySession
<1> SUFFICES ASSUME NEW s \in Sessions
             PROVE  Committed!Stays(s) \/ Committed!Moves(s)
  OBVIOUS
<1>1. SessionConsistent(s) /\ store[s] \in SessionState /\ store \in [Sessions -> SessionState]
  BY ConsistentBySession DEF TypeInv, TypeOK
<1>2. ASSUME UNCHANGED <<store, removed, lastEvent>>
      PROVE  Committed!Stays(s)
  BY <1>2, SessionStays DEF StateOf, Tracked
<1>3. CASE Tick
  <2>1. StateOf(s)' = StateOf(s) /\ lastEvent'[s] = lastEvent[s]
    BY <1>3, TickAges DEF StateOf, Tracked
  <2> QED
    BY <2>1, SessionStays
<1>4. ASSUME NEW p \in Pollers,
             CommitNew(p) \/ CommitResumed(p) \/ CommitTerminal(p) \/ CommitUpdated(p)
      PROVE  Committed!Stays(s) \/ Committed!Moves(s)
  <2>1. PICK st \in SessionState, type \in {"discovered", "updated", "resumed", "terminal"} :
           /\ store' = [store EXCEPT ![SessionAt(p)] = st]
           /\ lastEvent' = [lastEvent EXCEPT ![SessionAt(p)] = type]
           /\ CommitOf(p, st, type)
    BY <1>4, CommitStores, Zenon
  <2>2. lastEvent \in [Sessions -> {"none"} \cup
          {"discovered", "updated", "resumed", "terminal", "stale", "removed"}]
    BY DEF TypeInv, TypeOK
  <2>3. /\ store'[s] = IF s = SessionAt(p) THEN st ELSE store[s]
        /\ lastEvent'[s] = IF s = SessionAt(p) THEN type ELSE lastEvent[s]
    BY <1>1, <2>1, <2>2
  <2>4. CASE s = SessionAt(p)
    <3>1. store'[s] = st /\ lastEvent'[s] = type /\ store[s] = Existing(p)
      BY <2>3, <2>4 DEF Existing
    <3>2. StateOf(s)' = st.life
      BY <2>1, <3>1 DEF StateOf, Tracked, CommitOf
    <3>3. <<StateOf(s), st.life, type>> \in
            {<<"untracked", "active", "discovered">>, <<"active", "active", "updated">>,
             <<"active", "terminal", "terminal">>, <<"active", "terminal", "stale">>,
             <<"terminal", "active", "resumed">>, <<"removed", "active", "resumed">>,
             <<"terminal", "removed", "removed">>}
      BY <2>1, <2>4, <3>1 DEF StateOf, Tracked, CommitOf
    <3> QED
      BY <3>1, <3>2, <3>3, SessionMoves
  <2>5. CASE s # SessionAt(p)
    <3>1. store'[s] = store[s] /\ lastEvent'[s] = lastEvent[s]
          /\ (s \in removed' <=> s \in removed)
      BY <2>1, <2>3, <2>5 DEF CommitOf
    <3>2. StateOf(s)' = StateOf(s)
      BY <3>1 DEF StateOf, Tracked
    <3> QED
      BY <3>1, <3>2, SessionStays
  <2> QED
    BY <2>4, <2>5
<1>5. ASSUME NEW p \in Pollers, StaleSweep(p) \/ SubagentSweep(p)
      PROVE  Committed!Stays(s) \/ Committed!Moves(s)
  <2>1. PICK S \in SUBSET Sessions, type \in {"stale", "terminal"} :
           /\ \A t \in S : Active(t)
           /\ store' = [t \in Sessions |->
                 IF t \in S THEN [store[t] EXCEPT !.life = "terminal", !.done = 0]
                 ELSE store[t]]
           /\ lastEvent' = [t \in Sessions |-> IF t \in S THEN type ELSE lastEvent[t]]
           /\ UNCHANGED removed
    BY <1>5, SweepTerminates, Zenon
  <2>2. CASE s \in S
    <3>1. store'[s] = [store[s] EXCEPT !.life = "terminal", !.done = 0]
      BY <2>1, <2>2
    <3>2. store'[s].life = "terminal" /\ store[s].life = "active"
      BY <1>1, <2>1, <2>2, <3>1 DEF SessionState, Active
    <3>3. StateOf(s) = "active" /\ StateOf(s)' = "terminal" /\ lastEvent'[s] = type
      BY <2>1, <2>2, <3>2 DEF StateOf, Tracked
    <3> QED
      BY <3>3, SessionMoves
  <2>3. CASE s \notin S
    <3>1. store'[s] = store[s] /\ lastEvent'[s] = lastEvent[s] /\ removed' = removed
      BY <2>1, <2>3
    <3>2. StateOf(s)' = StateOf(s)
      BY <3>1 DEF StateOf, Tracked
    <3> QED
      BY <3>1, <3>2, SessionStays
  <2> QED
    BY <2>2, <2>3
<1>6. ASSUME NEW p \in Pollers, RetentionSweep(p)
      PROVE  Committed!Stays(s) \/ Committed!Moves(s)
  <2>1. /\ store'[s] = IF s \in ExpiredSessions THEN Absent ELSE store[s]
        /\ s \in removed' <=> s \in removed \/ s \in ExpiredSessions
        /\ lastEvent'[s] = IF s \in ExpiredSessions THEN "removed" ELSE lastEvent[s]
    BY <1>6 DEF RetentionSweep
  <2>2. CASE s \in ExpiredSessions
    <3>1. StateOf(s) = "terminal"
      BY <2>2 DEF ExpiredSessions, StateOf, Tracked
    <3>2. StateOf(s)' = "removed" /\ lastEvent'[s] = "removed"
      BY <2>1, <2>2, AbsentFields DEF StateOf, Tracked
    <3> QED
      BY <3>1, <3>2, SessionMoves
  <2>3. CASE s \notin ExpiredSessions
    <3>1. StateOf(s)' = StateOf(s) /\ lastEvent'[s] = lastEvent[s]
      BY <2>1, <2>3 DEF StateOf, Tracked
    <3> QED
      BY <3>1, SessionStays
  <2> QED
    BY <2>2, <2>3
<1> QED
  BY <1>2, <1>3, <1>4, <1>5, <1>6, BystanderLeaves, OtherLeaves
     DEF Next, Poller, PollLoop, SweepAndEmit, Bystander

\* What every session does in the store is a behaviour of SessionLifecycle: it
\* makes only the allowed moves, however many calls of PollOnce interleave, and
\* the event collected for a move is the event of that move.
THEOREM StoreRefinesLifecycle == Spec => StoreFollowsLifecycle
<1>1. StoreFollowsLifecycle
        <=> Committed!Init
            /\ [][Committed!Next]_<<[s \in Sessions |-> StateOf(s)], lastEvent>>
  BY DEF StoreFollowsLifecycle, Committed!Spec
<1> QED
  BY TypeInit, TypeStep, ConsistentInit, ConsistentStep, LifecycleInit, LifecycleStep, <1>1,
     PTL DEF Spec
=============================================================================
