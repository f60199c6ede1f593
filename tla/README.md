# agentwatch in TLA+

Specifications of [agentwatch](../src/README.md), a Go library that watches the
sessions of local coding agents. *Sources* read what agents leave on disk, the
*monitor* merges it into one store and announces every change, *transports* pass
the announcements on. The modules model the monitor, the lifecycle it promises,
every source that reads an agent's files or database, the directory walker they
share, and the WebSocket transport with its rate limiter. TLC checks them on
small instances, TLAPS proves what it can for all.

## The system

```
 agents ──files──> sources ──SourceUpdate──> monitor ──Event──> sinks
                   Discover, Parse           store, cursors,     wsapi, httpapi,
                                             tombstones, health  any EventSink
```

| Component | State | Operations | What makes it correct |
|---|---|---|---|
| `monitor` | store, cursors, tombstones, health, sequence number, under one mutex | `PollOnce`, `Run`, `Snapshot`, `Health` | store and events agree; every move of a session is a legal one and is announced once, in order; nothing read is lost or counted twice; silent sessions leave; health follows failures and recoveries |
| `session` | lifecycle of one session | moves between untracked, active, terminal, removed | only the moves of `lifecycle.go` |
| `transport/wsapi` | registry of clients, a buffer per client, stopped flag | `HandleEvent`, `ServeHTTP` with two pumps and a heartbeat, `Stop` | no client misses an event without being disconnected; the registry holds the open connections; goroutines end |
| `transport/wsapi` rate limiter | token buckets | `Allow`, sweep | a bucket dropped and made anew is never better than the one kept |
| `sources/claude` | pending ends, time of the last scan; the cursor is kept by the monitor | `Discover`, `Parse`, marker scan | messages, completions and ends reported, once, however the input is cut |
| `sources/codex`, `pi`, `cursor` | directory cache; cursor is an offset | `Discover`, `Parse` | as above |
| `sources/antigravity`, `opencode` | cursor of totals | `Discover`, `Parse` | deltas sum up to the totals; an unchanged session gives a zero update |
| `internal/filewatch` | cache of directory listings | `Discover` | what is on disk is found, with its current age |
| `internal/jsonl` | none | `ReadLines` | complete lines only, no line skipped |
| `internal/eventbus`, `source` registry | subscribers; factories | `Subscribe`, `Publish`; `Register`, `Get` | delivery in order of registration |
| `transport/httpapi`, `session/privacy.go`, `jsonl/parse.go` | none | pure or read-only | — |

Where the parts meet: the monitor calls sources and sinks without its lock, so
anybody can act between two critical sections of one poll; a source's cursor is
stored by the monitor, but only with an update that is not zero; `wsapi` reads
`Snapshot` from a handler while the monitor's goroutine delivers events. What is
hard follows from that: contexts cancelled between two commits, failures of some
handles and not of others, sessions that come back after their end, ages exactly
at a threshold, files that grow while they are read, clients that come, stall
and go while an event is fanned out, and a `Stop` at any of these moments.
`PROJECT.json` lists each hazard at its line.

## Modules

| Module | Models |
|---|---|
| `SessionLifecycle` | the abstract specification: states of a session and the moves between them |
| `Monitor` | `monitor.go`, `health.go`: one action per critical section or outgoing call |
| `MCMonitor` | values for its constants |
| `MonitorProofs` | theorems about `Monitor` for any number of callers, proved |
| `MonitorPollProofs` | theorems about `Monitor` with one caller, and about retention, proved |
| `SequenceCounts` | lemmas about counts in parts of a sequence and sums over finite sets, proved |
| `WsServer` | `server.go`, `broadcaster.go`, `conn.go` |
| `WsServerProofs` | theorems about `WsServer`, proved |
| `ClaudeSource` | `sources/claude` and `internal/jsonl`, with the monitor as caller |
| `MCClaudeSource` | values for its constants |
| `ClaudeProofs` | theorems about `ClaudeSource`, proved |
| `Filewatch` | `internal/filewatch`: the walk, its cache, and a file system that changes |
| `TailSources` | `sources/codex`, `cursor`, `pi`: `Filewatch` extended with `Parse` and the monitor's part |
| `MCTailSources` | values for its constants |
| `TailProofs` | theorems about `Filewatch` and `TailSources`, proved |
| `CountingSources` | `sources/antigravity`, `sources/opencode` |
| `CountingProofs` | theorems about `CountingSources`, proved |
| `TokenBucket` | the abstract specification of a rate limiter |
| `RateLimiter` | `transport/wsapi/ratelimit.go`, an implementation of `TokenBucket` |
| `MCRateLimiter` | symmetry of its clients and handlers |
| `RateLimiterProofs` | theorems about `RateLimiter`, proved |

### Monitor

`store`, `cursors`, `removed`, `health`, `seq` are the fields of the `Monitor`
struct; `poll[p]` holds the local variables of a call of `PollOnce` by goroutine
`p`, `pc[p]` the place it has reached. `seen`, `replica`, `sinkHealth` are a
consumer: the last lifecycle event of each session, a copy of the store made from
deltas alone, the last status of each source. `base`, `since`, `lastEvent` are
history variables that only properties read.

| Action | Code |
|---|---|
| `Begin`, `RunDone` | `Run`'s select; a direct call of `PollOnce` |
| `Discover`, `DiscoverFails`, `ReturnErr` | the source loop, 65-93 |
| `ReadCursor`, `Parse`, `ParseNothing`, `ParseFails` | 95-116 |
| `CommitNew`, `CommitResumed`, `CommitTerminal`, `CommitUpdated` | the four cases of the critical section, 118-191 |
| `FinishSource` | health after the last handle, 193-206 |
| `StaleSweep`, `SubagentSweep`, `RetentionSweep` | 208-316 |
| `EmitLifecycle`, `EmitDelta`, `EmitHealth`, `Return` | delivery, 318-344 |
| `Write`, `Tick`, `Cancel` | the environment |

Abstractions. A source is an append-only log per handle, read from a cursor to
its end; records are messages, an end, news of sub-agents. Times are ages in
ticks, cut off above every threshold: the code compares distances only. The
clock is read immediately before a critical section and is read inside it here.
Map iteration is an arbitrary order. A sink is always configured. `seq.Add` and
the call of the sink are one step, since `seq` is atomic and nobody else reads
it. Fields that no case of the code branches on (model, tokens, directories,
tool counts) are left out; the message count stands for all of the accumulated
counts.

### WsServer

An action is a critical section of `b.mu`, `c.mu` or `s.mu`, or a blocking call
(write, ping, read). The monitor's store is the number of its commits. What it
delivers is what `PollOnce` does: one lifecycle event for each commit, then one
delta with all of them, then health events, for which nothing need have been
committed (monitor.go:318-340); each has a number of its own and goes through
`HandleEvent`. A delta or a snapshot carries the number of commits it was made
from, and a client holds that of the last one it has got. A poll is not abandoned
here; what is lost then is in `Monitor`. A peer may stop answering (`Silence`) or go away (`Disconnect`). Rate limit, origin check, authentication
and a failed upgrade are one `Refuse`.

### ClaudeSource

The transcript is a sequence of lines plus the unfinished one at its end, and
grows between any two steps of `Parse`: `ReadLines`, `drainEndMarkers`, and the
update with the monitor's commit (`ReportData`, `ReportEnd`, `ReportNothing`).
Lines are of five kinds: a message, the result that completes the sub-agent, its
progress, a line without data, one above the size cap. A
marker carries the session's ID and the transcript's path, or leaves the path out,
or does not pass validation; without a path it is indexed under the session's ID
only (source.go:402). The discover window is the flag `old`. What the monitor makes of `Terminal` is in `Monitor`.

### Filewatch and TailSources

`mtime` is the file system: the modification time of each file and directory. A
directory's time changes when something in it is created or removed, not when a
file is appended to; a tick of `clock` is the resolution of these times. `cache`
is `dirCache`, `stack` the nested calls of `walkDir`, `listed` the results.
`fresh`, `hidden` and `late` are history variables: what was created within the
tick in which its directory had just been read, and what since the walk began.

| Action | Code |
|---|---|
| `Discover`, `WalkDir` | `Discover`, `walkRoot`, `walkDir` up to the comparison with the cache, 97-171 |
| `ReadDir` | 173-187 |
| `Descend`, `CollectFile` | one entry of the directory, 216-264 |
| `Return` | 231-236: the listing is stored with the time from before it was read |
| `Cancelled`, `PollCancelled` | the context checks of `walkDir` and of `PollOnce` |
| `ParseUpdate`, `ParseNothing`, `ParseFails` | `Parse` of the three sources, `ReadLines`, and what `PollOnce` does with the result |
| `Create`, `AppendLine`, `RemoveFile`, `Tick` | agents, users, time |

Agents act between any two steps of a walk and of a poll. A line is a member of
`LineKinds`: `session_meta`, the header of an old transcript, a message, a line
above the cap. `source` is chosen in the initial state: for `codex` an update is
named by its lines, for `pi` and `cursor` by the handle. `Parse` is one step,
since it only reads one file. `counted` and `cursor` are the monitor's. Left out:
symbolic links, more than one root (no source has two), directories that are
removed, errors other than a missing file.

### CountingSources

`record` is the JSON file or the rows of one session: `exists`, `whole`,
`mtime`, `archived`, and the totals of messages and tool calls. `pc` and `seen`
are the locals of `Parse`: antigravity goes through `Stat` (or `Unchanged`),
`ReadFile` (or `ReadFails`), `Commit`; opencode through `QuerySession` (or
`NoSession`), `CountMessages`, `CountTools`, `Commit`, and any query may fail.
The agent acts between all of these: it rewrites the file in two steps, adds and
deletes rows, archives, removes. `Commit` is the update with the monitor's part:
`counted`, `cursor` and the lifecycle state `shown`, as the four commits of
`Monitor` make them.

Both discover only what is within a window. opencode compares `updated_at`, which
the agent may or may not set when it adds a row. antigravity takes the time from
the walker: `dir` says whether the directory has changed since it was listed, as
it does when a file comes or goes (`OtherFile` is that of another session), and
the time the listing has of the session's file. A rewrite in place changes
neither, so the file ages out of the window by the time of an old listing, until
the directory changes. Here the walk is one step of `DiscoverFile` and every change of the
directory shows; its own steps, and changes within the resolution of the
directory's time, are in `Filewatch`. Left out: a database that cannot be opened,
both sources' descriptive columns, the monitor's sweeps.

### RateLimiter

`clients` and `lastSweep` are the fields of `clientRateLimiter`; `request[h]` is a
call of `Allow` by handler `h` between the reading of its clock and the lock.
`Admit` and `Refuse` are all that happens under the lock: sweep, refill, decision.
Tokens are integers: a token is `Window` parts and a tick brings `Limit` of them.
`ideal`, the bucket that was never dropped, is the history that `TokenBucket` is
mapped to; `promised` is the time `RetryAfter` gave a client.
`RateAssumption` asks that a bucket idle for two windows is full again, less the
time a handler may wait for the lock. `WithRateLimit` (options.go:98-101) does not
check it: with a burst above twice the limit the sweep gives tokens away.

## Runs

| Run | Shows |
|---|---|
| `monitor_core` | one `Run`, one source, two sessions, ends dated back or not, a clock that ticks during polls: invariants of store, cursors and consumer; the store and the consumer's events both implement `SessionLifecycle` |
| `monitor_fair` | two sources, a sub-agent, two failures of `Discover` or `Parse`: health, sub-agents, and the three liveness properties |
| `monitor_concurrent` | two callers, one cancelled context: what the lock alone guarantees |
| `ws_clients` | two requests, a limit of one connection, a buffer of one message, a commit with its events, a health event, a `Stop`: registry and streams |
| `ws_shutdown` | one connection, two commits: handlers return, a silent peer is dropped |
| `claude_tail` | a transcript of two lines with a sub-agent, one of one line whose records carry a different ID, two markers, with a path, without one or invalid |
| `rate_limit` | two handlers, two clients, readings of the clock up to one tick old, sweeps: decisions are those of buckets that are never dropped |
| `tail_sources` | codex or pi, a transcript in a subdirectory, all created, appended to and removed while they are watched |
| `counting_sources` | antigravity or opencode, a window of one tick, six writes of the agent, two failed queries |
| `monitor_ended_unseen`, `codex_later_batches`, `walker_window` | expected violations, see *Findings* |

**Bounds.** Three records let a session be discovered, end and come back; with
`Retention` and `StaleThreshold` at one tick every age is below, at or above each
threshold. With `EndedAges` 0 and 1 an end that a source reports is new or already
as old as `Retention`, so that it is removed by the poll that commits it. `SeqWidth` is 1 or 2, so numbers wrap. Two failures, in one poll or in two, of one
source or of both, take a source with `HealthThreshold = 1` to degraded and to
failed. Two sessions are the least for a sub-agent and its parent and
for sweeps that move several sessions at once. In `WsServer` a buffer of one is
full after one message, the limit of one connection is reached by the first of
two. One commit makes a lifecycle event and a delta, which come before a snapshot,
after it or around it, and a health event can come before, between two polls, or
after. In `ClaudeSource` two lines are progress and the completion,
which come in one batch, or in two with an end between them that makes the
monitor keep the cursor; `progress` lines are also the lines without data, and
`result` lines without progress are messages. Two markers are what it takes for
one to be written between the scan and the report of the other. The path is left
out for the transcript whose records carry another ID, where it matters; a marker
that is not valid is written for the other.
In `TailSources` two levels of directories are what it takes for a change that the root's time does not show, two lines for two
batches; with `MaxAge` 1 and times up to 3 a transcript is inside, at and outside
the window, and leaves it while its directory stays unchanged. In
`CountingSources` totals up to 2 go up, down and up again, six writes are three
rewrites of a file, and times up to 4 let each fall into a tick of its own or all
into one; with a window of one tick a session is inside, at and outside it. In `RateLimiter` the clock runs long enough for a sweep, for a bucket
that comes back, and for another sweep.

**Deadlock** is checked in the runs of `Monitor` and `ClaudeSource`, where the
poller never stops for good unless its context is cancelled while agents and
clock go on. `WsServer` may stop: every request served, the server stopped. So
may `RateLimiter`, `TailSources` and `CountingSources` in the instances that are
checked: at the end of the modelled time, all that may be written written.

**Fairness.** `MonitorFair.cfg`: weak fairness of each poller, since `Run`'s
ticker fires again and again and sources and sinks return (`events.go:41-42` asks
that of sinks); strong fairness of `Tick`, because in an instance where the clock
stands still during a poll it is enabled only between polls, and time passes all
the same. `WsShutdown.cfg`: weak fairness of the monitor's delivery, of `Stop`
once called, and of each connection's goroutines, all of which are scheduled by
the runtime and block only on calls with a timeout; no fairness of requests,
commits or peers. `ClaudeTail.cfg` and `TailSources.cfg`: weak fairness of the
poll and of the clock. `CountingSources.cfg`: weak fairness of the poll alone. In
none of them do agents owe anything, and cancelled contexts and failed queries
are bounded.

## What is checked

*Monitor.* `StoreConsistent` ties completion time, tombstones and data time to
the lifecycle. `ReplicaMirrorsStore`, `ToldTheTruth` and `HealthMirrored` compare
a consumer with the store between polls. `CountsMatchCursors` says no record is
lost or counted twice. `StoreFollowsLifecycle` and `SinkFollowsLifecycle` are two
refinements of `SessionLifecycle`, by the store and by what is delivered.
`OnlyNewDataResumes` and `NoOrphanedSubagent` speak of steps and sweeps;
`RemovedOnTime` says that a session is removed in the first retention sweep that
finds its last end old enough, neither earlier nor later; `EverythingIsConsumed`, `SilentSessionLeaves`, `HealthRecovers` are
liveness.

*WsServer.* `RegistryConsistent`, `NoSilentGap` (a registered client has every
event since it joined, in order and once, except the one being delivered),
`CurrentAfterSnapshot` (a client to whom no delta came before the snapshot holds
the monitor's store once everything is delivered), and the liveness properties
`ClosedHandlersReturn` and `SilentPeerIsDropped`.

*ClaudeSource.* `ReportedOnce`, `CompletionShown`, `EndAnnounced`, and the
liveness properties `EndReported` and `MessagesReported`, which name the two
exceptions the code has: a transcript with a line above the cap is never read
again, one outside the window is not discovered. A third is in what `EndReported`
asks for: a marker without a path, for a transcript whose records carry another ID
than its file, is found only when there is data.

*Filewatch and TailSources.* `OmissionsExplained` lists the only reasons for which
a walk misses a file: it was created while the directory was being read, within
the resolution of the clock, or the cache holds an older time of it. The mutant
that stores the listing with the directory's time at the end of the walk breaks
it. `CountedOnce` relates what was counted to the stored cursor; `LinesReported`
is liveness, with the exceptions the code has: a file that cannot be read, and for
codex the lines after the last one that gives the session's ID.

*CountingSources.* `CountedAsWritten` bounds what the monitor has counted from
below by the cursor and from above by everything ever written: opencode's queries
see different moments and both sources' totals may shrink, and still nothing is
counted that was not written. `LatestCounted` and `EndShown` are liveness:
the latest totals arrive unless the file was rewritten within the tick in which it
had been read, and an archived session is shown as ended again after a poll
that has resumed it, both as long as the session is discovered.

*RateLimiter.* `LimitsLikeBuckets` is the refinement of `TokenBucket`;
`RetryAfterSuffices` and `SilentClientsAreForgotten` speak of the answer to a
refused client and of the size of the map.

Each property has a mutant of the code's model that TLC finds violating it.

## Findings

1. `monitor_ended_unseen`: a terminal update is committed as active when it is
   its session's first or finds it terminal (monitor.go:137). The Claude source
   makes such updates: a marker that comes when the session is stale, or the
   second entry of a marker with two IDs, resumes a session without any data.
   So does opencode, for every archived session: its `Parse` never returns a zero
   update, and the session is resumed and ended in turn, poll after poll.
2. `codex_later_batches`: the session's ID is taken from the lines of a batch
   (codex/source.go:146), and only the first batch has it. Later updates are
   taken for no new data (monitor.go:113) and the batch is read again each time.
3. `walker_window`: an unchanged directory is listed from the cache with the
   files' modification times of the last reading (filewatch.go:155), so that a
   transcript that grows for longer than the window is no longer found.

Noted while modelling, each read from the code, without a run:

- a context cancelled between two handles drops events and delta of what the same
  call has committed (monitor.go:92);
- retention is measured from the `EndedAt` a source reports (monitor.go:166-170,
  300), and both sources that end sessions date ends back (claude/source.go:388-393,
  opencode/parser.go:208-212): a session can be ended and removed in one poll, against
  options.go:80-81 and docs/decisions/0005-lifecycle-transitions.md:81-82, which
  count from when it becomes terminal. `RemovedOnTime` and the theorem about it
  state what the code does;
- an end marker without `transcript_path` is valid (claude/source.go:445) but is not
  indexed under the file's name (402): the end of a transcript whose records carry
  another ID waits for data, and with none it is never reported;
- antigravity's files age out of the window by the times of a cached listing, as
  in finding 3: a session that is rewritten in place is no longer discovered
  (antigravity/source.go:69-76, 100);
- an event may reach a client before its snapshot (server.go:113), against the
  comment at server.go:20-21;
- a request under way is registered after `Stop` has returned (server.go:105),
  against the comment at server.go:136;
- a sub-agent that completes in a later batch than its progress is reported
  without the slug the monitor matches on (claude/parser.go:377, monitor.go:240-241);
- antigravity returns an advanced cursor with a parse error so as not to retry
  for ever (antigravity/source.go:162-166), but the monitor stores no cursor on an
  error (monitor.go:103-111). That is as well: a file found half-written and
  completed within one tick would never be read;
- `internal/eventbus` calls itself the mechanism of `MultiSink` and is used by
  nothing.

## What is proved

Every invariant, action property and refinement that a passing run checks is also
a theorem, for every value of the constants that satisfies the assumptions of its
module. Hypotheses beyond these are named below, each with its reason. Bounds such
as `MaxVersion`, `MaxLines` or `MaxTime` are constants too, so that the theorems
hold however far they are pushed.

`MonitorProofs`, for any number of goroutines in `PollOnce`, cancelled or not:

- `TypeCorrect`: `Spec => []TypeOK`. `TypeOK` alone is not inductive: that a
  commit writes to an entry of the store needs the poller's handle to be one, and
  that a source's health is recorded needs its index to be in range, both only
  where the program is at certain places. `TypeInv` adds `LocalsInScope`, which
  says so, and is split by the variables a step touches: shared state, consumer,
  pollers, contexts.
- `StoreIsConsistent`: `Spec => []StoreConsistent`. The invariant is inductive on
  top of `TypeInv`. A step either leaves a session's entry alone, or ages it, or
  replaces it by one of a few forms; the proof goes session by session over the
  four commits, the sweeps and the clock. It says that the lock sections alone
  suffice, with any number of calls of `PollOnce` at once.
- `StoreRefinesLifecycle`: `Spec => StoreFollowsLifecycle`. Under the mapping of
  `StateOf` and `lastEvent`, the initial states are those of `SessionLifecycle`
  and every step is, for each session, one of its moves or none.

`MonitorPollProofs`. The first theorem is for any number of callers, the others
for one, `Pollers = {p}`: `Run` is the only caller in the repository, and
docs/architecture.md:61 forbids concurrent calls.

- `RetentionIsKept`: `Spec => RemovedOnTime`, however far back sources date their
  ends. The invariant `DoneSince` says that the completion time in the store is that
  of the end which last made the session terminal: no commit, sweep or resumption
  leaves another one there. `RemovedExpired` and `ExpiredRemoved` are the two
  directions.
- `OnlyNewDataBringsBack`: `Spec => OnlyNewDataResumes`. `PollInv` says that the
  cursor read in one critical section is still the stored one in the next, and
  that a batch to be committed is not empty.
- `EveryRecordIsCountedOnce`: `Spec => []CountsMatchCursors`, with failures and
  cancelled contexts. `CursorInv` adds that a batch to be committed is what
  follows the cursor. The count of a session is a sum over the sources that
  report it; a commit changes one term and the sum by as much (`SumOfChange`).
- `NoSubagentIsOrphaned`: `Spec => []NoOrphanedSubagent`.
- `ReplicaIsSnapshot`, `SinkIsToldTheTruth`, `HealthIsMirrored`: what the sink
  gathers from deltas, lifecycle events and health events is, between polls, what
  the store says. They assume that no context is cancelled, since `ReturnErr`
  drops what a call has collected. Their invariants (`ViewInv`, `EventInv`,
  `HealthInv`) say the same of what the sink has, followed by what is still queued;
  each commit and each sweep appends to the queue what it does to the store.
- `SinkRefinesLifecycle`: `Spec => SinkFollowsLifecycle`, if `p` is a goroutine in
  `Run` or no context is cancelled. `Chained` says that consecutive events about a
  session, in what was delivered and what is queued, are moves of
  `SessionLifecycle`. `Run` may be cancelled at any time: it loses the end of the
  history, never the middle. A caller that polls again after an abandoned call
  leaves a gap.

`SequenceCounts` holds what the proofs about cursors share: the count of certain
elements in two adjacent parts of a sequence is the sum of their counts, appending
changes neither part, and a sum over a finite set of naturals (`SumFunction` of
the community modules) follows the change of one term. The library's induction
theorems cannot be instantiated here, so the facts about sums are proved from a
smallest counterexample, whose existence the well-foundedness of `<` on `Nat`
gives.

`WsServerProofs`, for any connections, limits, buffers and peers:

- `TypeCorrect`: `Spec => []TypeOK`, which includes that a delta does not run ahead
  of the lifecycle events of its commits.
- `RegistryIsConsistent`: `Spec => []RegistryConsistent`. `RegInv` says of every
  connection where in its life it may be registered, closed, or in the hands of
  `Stop`.
- `NothingIsMissed`: `Spec => []NoSilentGap`, and `SnapshotThenCurrent`: `Spec =>
  []CurrentAfterSnapshot`. `StreamInv` speaks of wire, pump and buffer as one
  stream, and tells a client that the event under way has still to reach, or that
  is about to be evicted, from one that has it; and it says what a snapshot taken
  before an event and queued after it may hold.

`ClaudeProofs`, for any transcripts, markers and IDs:

- `TypeCorrect`: `Spec => []TypeOK`, and `MessagesAreReportedOnce`: `Spec =>
  []ReportedOnce`. `BatchInv` says that the batch stays the part of the transcript
  after the cursor, while agents append, until it is reported or dropped.
- `CompletionsAreShown`: `Spec => []CompletionShown`. `SubInv` relates the parent
  map in the cursor, and what is shown, to the lines before the cursor.
- `OneEndPerMarker`: `Spec => []EndAnnounced`, if `OneFileEach`: no two
  transcripts hold records of one session. If two do, one entry of a marker may
  end the one and the other entry the other, with a single marker written. The
  property names transcripts whose records carry the ID of their file; the
  hypothesis is what remains of the others. The history variable of the property
  must not forget a second marker written between scan and report of the first:
  the proof asked for that case, and the run now has two markers for it.

`TailProofs`, for any tree of directories, window and lines:

- `TypeCorrect`: `Spec => []TypeOK`.
- `EveryOmissionIsExplained`: `Spec => []OmissionsExplained`. `WalkInv` has four
  parts. `TreeInv`: what exists hangs from the root. `CacheInv`: a cached listing
  is older than its directory, or has everything in it that is not hidden.
  `StackInv`: the calls of `walkDir` are those of a path, and the listing that
  each is about to store is as good as one in the cache. `CoverInv`: a file is
  already in the results, or too old in the cache, or the walk has still to come
  to it. The proof holds without the condition that the file is within the window.
- `EachLineIsCountedOnce`: `Spec => []CountedOnce`. A batch is the part of the
  transcript after the offset, and what a file appends meanwhile is beyond it.

`CountingProofs`, from `CountingAssumption` and for every bound:

- `NothingCountedTwice`: `Spec => []CountedAsWritten`. The property is not
  inductive, since it says nothing of totals that have been read and not yet been
  committed. `Accounted` adds them: what is counted, plus what the totals in hand
  will add to it, plus what the record has gained since, is at most what was
  written. Each of the agent's writes, reads and commits moves an amount from one
  of these to the next.
- `TypeCorrect`: `Spec => []TypeOK`, with `WrittenBounded`: a write adds at most
  `MaxTotal`.

`RateLimiterProofs`, from `RateAssumption` and for every set of clients and
handlers and every rate:

- `SweepIsInvisible`: `Spec => LimitsLikeBuckets`, the refinement. The invariant
  `BucketsAgree` relates the map to `ideal` client by client: a bucket that is
  there is the ideal one, and one that is not there was never made or would be
  full again for every request that can still come (`FullAgain`).
  `ReadingsAreRecent` bounds how old a request's time may be. `DroppedIsFull` is
  the one place that needs `RateAssumption`.
- `TypeCorrect`: `Spec => []TypeOK`.
- `PromisesAreKept`: `Spec => RetryAfterSuffices`. `PromisesHold`: a client that
  was told when to come back has a whole token from then on. That the division in
  `RetryAfter` is rounded up is what makes it true (`RoundedUp`).
- `TheSilentAreForgotten`: `Spec => SilentClientsAreForgotten`. `SweptClean`: no
  bucket in the map was idle when the last sweep ran. With the next sweep due one
  idle time later, this bounds what can be left.

Only model-checked: liveness (`EverythingIsConsumed`, `SilentSessionLeaves`,
`HealthRecovers`, `ClosedHandlersReturn`, `SilentPeerIsDropped`, `EndReported`,
`MessagesReported`, `LinesReported`, `LatestCounted`, `EndShown`), since the prover
handles neither fairness nor `ENABLED`. The three expected violations have a
counterexample each and nothing to prove.


## Not modelled

The HTTP handlers, the privacy filter, the JSON decoders and `MultiSink` keep no
state. `internal/eventbus` has no user, and the source registry is a map under one
mutex. `internal/clock` and `internal/testutil` serve tests; `sources/mock` and
`examples` are demonstrations. `sources/antigravity/procmap.go` is `/proc` I/O.
In `sources/claude`: more than 256 markers at a time, a marker half written, two
transcripts whose records carry one ID, more than one sub-agent. In
`sources/cursor`: two layouts that hold one ID. In `internal/jsonl`: a file that
shrinks. In `internal/filewatch`, `sources/antigravity` and `sources/opencode`: what
is said under *Modules*. In `Monitor`: ends dated into the future, which the skew
that `validateEndMarker` allows (claude/source.go:463-470) makes possible and which
keep a session longer.

## Plan

Left to do: a composition of `ClaudeSource` with the lifecycle cases of `Monitor`,
to ask whether an end that a marker announces is shown as an end.
