# Verification of harry-performance-scraper

TLA+ modules, TLC runs and TLAPS proofs for the scraper under `src/`: a Go
process that samples Oracle databases on several independent schedules, writes
the samples to PostgreSQL, and elects one active process per HA scope.

## 1. Inventory

| component | source | state | operations |
|---|---|---|---|
| Connection state machine | `collector/database.go`, `types.go`, `connect_*.go` | per database: `Session` (a `sql.DB` pool), `connection` (`STARTING`, `ACTIVE`, `QUARANTINED`, `PROBING`, `QueuedAt`), `activityError`, `startupReady`, all under `reconnectMU`; a gate that counts connection attempts (godror) | `NewDatabase`, `WarmupConnectionPool`, `ping`, `Query`/`QueryContext`/`PingContext`, `quarantine*`, `beginProbe`, `reconnect`, `finishProbe`, `activate`, `suspendActivity`, `resumeActivity` |
| Dead connection detection (DCD) | `collector/dead_connection_detection.go` | a timer | one serial pass over all databases, then a report |
| Scheduled scrape | `collector/collector.go`, `performance.go`, `operational.go`, `dataguard.go` | previous counters, plan cache, metric definitions and their hashes | `doScrape`, `scrapeSamples`, `scrapeDatabaseSamples`, three phases |
| Activity sampling | `collector/activity.go` | ASH watermark per database | `RunActivitySampling`, `sampleActivity`, `scrapeActivitySamples` |
| Additional metrics | `collector/metrics.go`, `data_loader.go`, `cache.go` | definitions, file hashes, last scrape per metric | `checkIfMetricsChanged`, `reloadMetrics`, `isScrapeMetric` |
| Runtime telemetry | `collector/runtime.go`, `samples.go` | none | missed intervals, lag and durations of a pass |
| PostgreSQL sink | `postgresql/postgresql.go` | telemetry buffer (`pendingRuntime`), row counts (`pendingIngest`), the tables | `New` (DDL, migration), `WriteSamples`, `cleanupRetention`, `Close` |
| Leader election | `ha/election.go` | the connection that holds the advisory lock | `Acquire`, `Monitor`, `Close` |
| Process life cycle | `main.go` | `ready`, `workCtx`, the deferred calls | `run`: elect, open the sink, start goroutines, wait, unwind |
| Alert log | `alertlog/` | a file per database, retry backoff per database | `UpdateLog` |
| Configuration, secret stores | `collector/config.go`, `azvault/`, `hashivault/`, `ocivault/` | none after startup | load, validate, fetch |

**Interactions.** `run()` waits for the election, opens the sink and starts five
goroutines: startup warmup, scheduled scrape, activity sampling, DCD and alert
log. All five use the same `Database` values and synchronise on `reconnectMU`
only. Three of them (scheduled, activity, DCD) call `WriteSamples` on the same
sink concurrently. The election uses a connection of its own; the sink's pool
does not notice when that connection is lost.

**What is hard.** Five goroutines race on one state machine; readers keep an
RWMutex while Oracle works; a probe rebuilds a pool under running queries; the
failure of an old query arrives after the recovery; the lock session ends behind
the leader's back; commits fail or succeed unheard; the buffers overflow; Close
overlaps writers; a killed process leaves its lock behind. `PROJECT.json` lists
each hazard with its line and the properties that would catch it.

**What makes each part correct.**

* Connections: the queue time, the state and the pool agree; no one uses a
  closed pool; no pool leaks; an available target is restored; activity sampling
  goes on.
* Election: one lock holder; only elected instances write; a deposed leader
  stops; a standby does not wait in vain.
* Sink: no telemetry lost or stored twice; the buffer is bounded; the latest
  status is the newest one; every committed row is accounted for once.
* Activity watermark: no ASH row is passed over, and the watermark never runs
  ahead of the table.
* Retention: a sample keeps the rows it refers to, and nothing younger than the
  retention period is removed.
* SQL consumers: a delta is the work that was done, no more; a plan that is not
  asked for again is stored.
* Alert log: no timestamp is passed over, no entry exported twice, every entry
  exported in the end.
* Scheduled pass: no goroutine blocks on a channel, no warmup is left to the
  ticker, what was not collected is reported as a failure.
* Metric reload: a failed reload takes nothing away and is tried again; a pass
  that sees no change works with what the files say.
* Connection state table: a row is as fresh as the newest report that was
  committed, and the table comes to show the databases of the present leader.
* Operational samples: a delta is the work between two readings; the views of
  the current state show one pass, and all of what a successful collection saw.

## 2. Modules

| module | what it is |
|---|---|
| `ConnectionLifecycle` | the connection state machine and the five goroutines that drive it |
| `ConnectionLifecycleProofs` | its inductive invariant and theorems |
| `Leadership` | abstract specification: what the election promises |
| `LeaderElection` | `run()` and `ha/election.go` for a set of instances; implements `Leadership` |
| `LeadersProofs` | inductive invariants and theorems of `LeaderElection` and `StateReports`, refinement |
| `TelemetryLog` | abstract specification: what the sink promises for runtime telemetry |
| `SinkBuffers` | telemetry buffer and row accounts of the sink, its writers and `Close`; implements `TelemetryLog` |
| `SinkBuffersProofs` | inductive invariant, theorems, refinement, and lemmas about queues |
| `ActivityWatermark` | passes over Oracle's ASH, their queries, writes and watermarks |
| `PerformanceProofs` | inductive invariants and theorems of `ActivityWatermark` and `SQLConsumers`, lemmas about sums |
| `Retention` | daily partitions, referenced rows and `cleanupRetention` |
| `RetentionProofs` | inductive invariant and theorems |
| `SQLConsumers` | SQL counter snapshots, deltas, top consumers and the plan cache |
| `AlertLog` | the alert log export, its file and its retries |
| `AlertLogProofs` | inductive invariant and theorems |
| `MetricDefinitions` | the definition files, their hashes and the reload |
| `ScheduledScrape` | the loop of scheduled passes, its requests and fan-out; composes with `MetricDefinitions` |
| `ScheduledScrapeProofs` | inductive invariant and theorems, for both modules |
| `StateReports` | the connection state table and the reports that compete for it |
| `OperationalSamples` | operational collections, counter deltas, Data Guard, and the views of the current state |
| `OperationalSamplesProofs` | inductive invariant and theorems |
| `MCConnectionLifecycle`, `MCLeaderElection`, `MCSinkBuffers`, `MCActivityWatermark`, `MCRetention`, `MCSQLConsumers`, `MCAlertLog`, `MCScheduledScrape`, `MCStateReports`, `MCOperationalSamples` | instances for TLC |

Definitions whose name extends that of another one and whose comment begins with
"Variant" describe a plausible mistake in that operation. No specification uses
them; they show that the properties notice it.

### ConnectionLifecycle

`connState`, `queuedAt`, `session`, `suspended` and `startupReady` are the
fields of `Database`. `reconnectMU` is modelled as Go implements it: `readers`
is the set of goroutines that hold the read lock, and `writer` the one that has
called `Lock()`, which keeps new readers out while it waits for the old ones. A
critical section that only touches memory is one step; a read lock held while
Oracle works spans several steps. `pc[a][d]` is where goroutine `a` is with
database `d`, `at[a]` its position in its loop. `open` and `using` are ghosts:
which pools are not closed and who works with which.

* `Warmup*`: `InitializeDatabases` and `WarmupConnectionPool`, which reads the
  session under the lock and works without it.
* `Scrape*`: a scheduled pass: admission, `ping`, then metrics, performance and
  operational queries, each of which may succeed, fail, or meet a connection
  failure; then the states are read for the report.
* `Activity*`: the checks in series, then one goroutine per database.
* `Dcd*`: `beginProbe`, `connect`, warmup of the candidate pool, the swap under
  the write lock, `finishProbe`; every error path on its own.
* `Alert*`: the alert log loop as a user of the connection.
* `OracleChanges`: the target goes away or comes back, at any moment.

With `DeadlineRace` a query may return rows just as its deadline passes
(`ScrapeQueryLeaksLock`): `scanRows` then returns before it defers `unlock`.

Abstractions: errors are reduced to what `isConnectionFailure` distinguishes;
two times suffice for `QueuedAt` (a new stamp always differs from the old one);
two pool identities suffice because a probe owns the only candidate.
`Database.Up` is written and never read, so it has no variable. Shutdown is left
out: a cancelled context only makes loops end earlier.

### LeaderElection

`pc[i]` is the position of `run()`; `conn[i]` is `Elector.conn` and says whether
the PostgreSQL session behind it is live; `lockOwner` is PostgreSQL's lock table.
`lockOwner = Orphan` is a session whose client is gone and which PostgreSQL has
not ended yet. The environment may lose sessions, lose the answer to `Acquire`,
kill a process (`exec` of `RESTART_INTERVAL` is the same to PostgreSQL), fail the
health server, send a signal, and fail over. `FlushSink`, `CloseSink` and
`Release` are the deferred calls in their order.

`Leadership` keeps a role per instance: idle, leader or deposed. The refinement
mapping reads it off `conn`. It states what the election does promise (one lock
holder, a deposed instance never leads again without standing for election) and
what it does not (fencing).

### SinkBuffers

Each writer's `WriteSamples` call is split where it releases a mutex or talks
to PostgreSQL: take the buffered telemetry, the transaction, put back or commit,
record the call's own telemetry, count the rows, flush the counts under
`ingestFlushMu`. `Close` runs beside the writers, because `run()` does not wait
for the collectors. A batch is one row; a telemetry sample is its scheduler and
its `ObservedAt`. `stored`, `duplicated`, `dropped`, `committed`, `overlap` and
`closeFailed` are history variables for the properties. Time is left open: at each
look at the clock a flush interval may have passed or not. `unheard` counts the
commits (at most `MaxUnheard`) whose success the client has not heard of. After
one of them a sample may be stored twice and a row go uncounted, so `StoredOnce`
and `RowsAccounted` speak of behaviours without; the other properties hold with
them too.

`TelemetryLog` says what all this is for, without a buffer or transactions: a set of
samples that are held, stored or dropped, and the steps between. A sample is
recorded once and leaves what is held once, into the table or, while `Limit` others
are held, as dropped; only a commit whose answer is lost leaves it in both. What
`SinkBuffers` has in its buffer and in the hands of writers and `Close` is what the
log holds (`InMemory`).

### ActivityWatermark

`sampleActivity` with source `ash`. `pc` is the position of the pass: collecting
(each database on its own, `Fetch` or `Unavailable`), writing (`WriteCommits`,
`WriteFails`, the latter with a commit nobody heard of), moving the marks
(`MoveWatermarks`). `watermark` is `activityWatermarks`; `Since` is the bound of
the query, and `since`, `fetched`, `outcome`, `sampledAt` are locals of the
pass. `stored` is the activity table with its `on conflict do nothing`. Oracle is
external: an instance takes a sample (`Sampled`), which becomes visible at most
`MaxLag` later and in any order (`Appears`) and may vanish again (`Disappears`).
`from` is a ghost: the bound of the query that set the first watermark of this
process, from which on the watermarks vouch for completeness. `Restart` is a
restart of the process or a change of leader; it is possible at every moment.

A row stands for all sessions an instance samples at one time: they share
`sample_time`, and neither the query nor the watermark tells them apart. The
session source (`GV$SESSION`) has no watermark.

### Retention

A call of `WriteSamples` collects (`Collect`), and its transaction creates or finds
the daily partition (`EnsurePartition`), writes what the sample refers to (`Upsert`
or `UpdateReference`) and commits (`Commit`) or rolls back at any point. Then the
call runs `cleanupRetention` under `retentionMu` (`cleaner`), which is split into its
statements: list the partitions of a table, drop them one by one, go to the next
table, delete the texts, delete the metadata; `CleanupFails` is the early return of
each. `partitions`, `rows` and `refs` are the database, and `refs` has
`last_referenced_at` of a text and `last_seen_at` of the metadata of a cursor. The two
are not treated alike:

* A text is upserted by the batches that carry it. All batches that mention the SQL
  run the UPDATE of the references, which moves the time of a text it finds.
  The delete is one statement and waits for locked rows.
* Metadata is upserted by each batch with details of the cursor. The upsert always
  locks the row, and moves `last_seen_at` on the first batch of a UTC day or when a
  detail has changed (`SeenThatDay` allows both). The delete skips locked rows and
  stops after a number of batches, so it takes any part of what has expired.

`written[w]` is the time that the transaction of `w` has given its item. As long as it
is not committed nobody else sees it, and the row is locked (`Locked`). An UPDATE that
finds no text locks nothing, and the text may be inserted and committed by another
writer before this one commits. A stored sample therefore records what became
of its reference: the transaction has `"written"` the item, or has not and the item was
`"found"` in the table at the commit, or there was `"none"`. `ReferencesKept` promises
something different in the first two cases, and nothing in the third.
A partition that a transaction creates stays locked too; one that exists is not
locked by `create table if not exists`, hence `existed`: the commit fails when it was
dropped in between.

The tables of the model are those of the scheduled samples (SQL, session, blocking) and,
last, that of the activity. A SQL sample whose
batch has no cursor details (they are collected at an interval of their own,
`performance.go:159`) does not touch the metadata, and nothing is promised to it.
SQL plans are left out: their statements (`postgresql.go:1958-2050`, `2795`) are those
of the texts. So are the deletes of old latest statuses, to which no sample refers. A
retention of zero switches the cleanup off and is not modelled. The cleanup that
`New` runs before there are writers is the same operation.

### SQLConsumers

`ScrapePerformanceSamples` for one database, whose state nobody else uses:
`snapshot` and `initialized` are `sqlCounterSnapshots`, `deltas` is
`sqlConsumerDeltas`, `known` is `knownPlans`, `due` the interval of
`shouldCollectSQLDetails`. A pass records deltas (`RecordDeltas`), takes the top
consumers when due, reads their cursors and the plans of the unknown ones, and
is written. Plans are marked before the write, and the plans of a query that ends
with an error are written and not marked (`PlanQueryFails`), as in the code.
Oracle executes cursors, ages them out, and lets them leave the lookback window
of the query when they are idle. Elapsed time stands for all counters; equal deltas
are ranked either way, since the other counters that break the tie are not
modelled. `fresh` and `credited` are ghosts: what was really executed. So
are `aged` and `idled`, the SQLs whose cursors were aged out or left the window in
this process, and `unwritten`, the known plans whose write failed. A failed write
loses such a plan for as long as its SQL stays a top consumer, because it is
marked before it is written (`performance.go:183`); `KnownPlansStored` shows that
a plan is lost in no other way.

### AlertLog

`UpdateLog` split where it waits: read the last record (`Begin`), query, open,
append row by row. `files` holds lines: a whole record, one without its newline,
a part of one, or several glued together because something was appended to a
line without newline. `Stops`, `Readable` and `LastTime` are the backward scan of
`readLastMatchingLogRecord`: it ends at the first line that matches or cannot be
parsed. `failures` and `wait` are the retry tracker; `wait` counts down instead of
comparing with a clock, and a failed query is recorded with the time at which
its call began, an arbitrary `age` ago. A call that returns before the query changes
nothing and has no action. Files may be removed at any time; a file removed while
it is open takes what is written to it along (`detached`).

Entries are taken to be returned in the order of their timestamps. The query has
no `order by`; the view reads the log from its beginning.

### MetricDefinitions and ScheduledScrape

`MetricDefinitions` has the state of the additional metrics: `disk` (the files,
each a version that is valid, broken or missing), `loaded` (`metricsToScrape`),
`hashes` (`metricDefinitionHashes`). `reloadMetrics` reads all files and then
hashes all files, one step each, and an `Edit` may come between any two; the
definitions are replaced when the last file was read, the hashes when the last
one was hashed. `raced` is a ghost: an edit came after the reading of a file and
before its hashing. Such an edit is hashed and never loaded (until the next one),
and `UnchangedIsCurrent` shows that no other edit is missed.

`ScheduledScrape` extends it. `warming` and `RequestScheduledScrape` are
`InitializeDatabases` and its non-blocking send to a channel of one
(`requested`); `loop` is `RunScheduledScrapes` and `doScrape`; `at[d]` is the
goroutine of database `d` in `scrapeDatabaseSamples`, with one action for each of
its returns, queries and error paths. `sent` counts the messages of the pass per
channel: `scrapeSamples` drains the error channel first and the others only after
all goroutines have ended, so each of those must hold everything a pass can
send, and `Send` is enabled only while there is room (`Capacity`).
`completion[d]` is the status `scheduled`, `ErrorCounted` the error count of
`newRuntimeSample`. The connection is reduced to `active[d]`, which other
goroutines change at any moment. Ghosts: `gap` (something of the database was not
collected), `outside` (another goroutine quarantined it during the pass),
`found` (a pass has found it ready). A database that another goroutine
quarantines between two phases is left with the status of what was done so far,
success included; `TroubleReported` exempts exactly this case. A metric that is skipped
without an error (`collector.go:495`) is not a gap: the pass goes on and counts it as
done.

### StateReports

The scheduled pass and DCD of every process stamp (`TakeTime`), read the states
(`ReadStates`) and write them (`Commit`, `WriteFails`): an upsert that keeps the
later time, and the deletion of databases that are not configured. Process 1 is
a leader, process 2 its successor, which runs beside it from `SuccessorElected` to
`LeaderDeposed` and has its own configuration. A state is the number of its changes. Of times
only the order matters, so a stamp is its rank among the stamps in use
(`Renumbered`), and a new one is placed last, or, while the clock of the
successor is behind (`behind`), anywhere above its own earlier ones. `seen`
and `floor` are ghosts: the states when a report took its time, and, per process
and database, the newest of them that was committed since the row was last
deleted by a process that does not have the database. That it starts again then is
how the code works: a commit of the deposed leader removes the rows of databases
that only its successor has, with their stamps, and a late report of the successor
may insert an older state than the one removed, until its next report.

### OperationalSamples

One database; all of this state is kept per database. `last` is
`lastOperationalScrape`, `snapshot` is `operationalCounters`, `batch` the rows and
statuses of the pass in hand. The thirteen collections are of four kinds, each of
which has one representative: a list, a second query that completes the rows of a
list (`Apply`), cumulative counters (`Delta`, `NewSnapshot`), and Data Guard,
whose discovery decides which queries follow. A query fails after any part of its
rows. `latest` is the table of latest statuses, `samples` the sample tables, and
`View` the `oracle_..._current` views: the samples with the time of the latest
status. Passes begin with the time of a tick, which may be old, or with their own
(a warmup's request). Oracle works, restarts, and changes its tablespaces and its
role between any two queries. Ghosts: `fresh` and `restarted` (what happened
since the reading in `snapshot`), `roles` (the roles during the Data Guard
queries; `ViewsTruthful` says nothing about the rows of a database that changes
its role between discovery and the queries). That the views are empty when the
latest status is more than a day old is left out.

## 3. Runs

| run | instance | checks | result |
|---|---|---|---|
| `conn_safety` | 1 database, all five goroutines, `DeadlineRace` | `TypeOK`, `OutagesTracked`, `PoolsSafe`, `WarmupUndisturbed`, `QueuedAtKept` | holds |
| `conn_liveness` | 1 database, no alert log, no `DeadlineRace` | `TargetRestored`, `ActivityGoesOn` | holds |
| `conn_lock_leak` | as above with `DeadlineRace` | `TargetRestored` | violated: section 4 |
| `election` | 2 instances | `TypeOK`, `SessionOwnsLock`, `WritesOnlyAfterElection`, `ImplementsLeadership`, `DeposedLeaderStops`, `StandbyTakesOver` | holds |
| `sink_buffers` | 2 interchangeable writers, buffer of 2, 3 samples, 2 rows, 1 unheard commit | `BufferBounded`, `NoSampleLost`, `StoredOnce`, `LatestIsNewest`, `RowsAccounted`, `CloseLeavesNothing`, `ImplementsTelemetryLog` | holds |
| `activity_watermark` | 1 database, 1 instance, interval 2, lookback 3, lag 1, time 5 | `NoRowSkipped`, `WatermarkStored` | holds |
| `retention` | 2 interchangeable writers, 1 SQL, 1 cursor, 2 tables, days of 2, retention 2, time 5, 2 rows | `ReferencesKept`, `OnlyExpiredRemoved` | holds |
| `sql_consumers` | 2 SQLs with 3 cursors, 3 executions | `NoManufacturedWorkload`, `WorkAttributed`, `KnownPlansStored` | holds |
| `alert_log` | 2 databases in a shared file, 2 timestamps, backoff 1 to 2, torn writes | `NothingPassedOver`, `WrittenOnce`, `TornEndsFile`, `EntryExported` | holds |
| `scheduled_scrape` | 2 databases, 1 definition file, 2 edits, 1 quarantine by others | `UnchangedIsCurrent`, `LastGoodKept`, `NoSendBlocks`, `WarmupNotOverlooked`, `TroubleReported` | holds |
| `state_reports` | 2 leaders with databases a, b and b, c, 1 and 2 reporters, a clock behind for 1 report | `TableFresh`, `TableConverges` | holds |
| `operational_samples` | 1 tablespace, 1 counter, interval 2, time 5, 2 events | `DeltasHonest`, `ViewsTruthful` | holds |

`OutagesTracked` is the conjunction of `QueuedWhileUnavailable` and
`ProbeOwnedByDcd`; `PoolsSafe` that of `ActiveHasOpenPool`, `NoUseOfClosedPool` and
`NoPoolLeak`.

**Bounds.**

* One database: everything a database shares is its own (`reconnectMU`, state,
  pool); databases meet only in the serial loops. Two databases exceed what TLC
  can enumerate in minutes, and the safety theorems hold for any number.
* `conn_liveness` leaves the alert log out: it is one more reader that never
  changes the state, and `conn_safety` includes it.
* Two instances: a deposed leader and its successor, or a leader and a standby. The
  safety properties and the refinement are theorems for any number of instances.
* Two writers and a buffer of two: a batch put back meets a buffer that the other
  writer has filled, two failed batches come back in the wrong order, and the
  buffer overflows by one and by two. `MaxSamples`, `MaxRows`
  and `MaxUnheard` cap the history. Permuting the writers is sound: they differ in
  nothing but their name, and no liveness is checked.
* `activity_watermark`: rows of a single instance already become visible in any
  order, so a second instance adds rows and no order; databases share nothing
  but the transaction, and the theorems cover any number of both. An interval of
  two is the smallest that exceeds a lag of one, and five instants hold a first
  pass, late rows, a failed pass and a pass that uses the moved watermark. With a
  lag of the interval or more `NoRowSkipped` claims nothing: the overlap of two
  queries is one interval, and the code relies on that.
* `retention`: days of two instants, so that a cutoff falls on the boundary of a
  day and inside one; five instants, so that the first day expires while samples
  of the next one are written; two tables, so that the cleanup meets commits
  between them. Two writers are what it takes for a text to be inserted between the
  UPDATE and the commit of the other, and the run reaches samples that lose such a
  text before their partition is dropped. Permuting the writers is sound: they
  differ in nothing but their name. `MaxDelay` (the age of a batch at its commit) is below the
  retention period, as collection and write timeouts are below any usable one.
* `activity_watermark` and `retention` stop at the bound of the clock.
* SQL consumers: one SQL with two cursors, so that a delta is a sum, and one to
  compete with it for the single place at the top; three executions, so that a
  counter falls and rises across two snapshots.
* Alert log: two databases are needed for the scan past other records, two
  timestamps for a call that ends in the middle. More failures than the backoff
  needs to reach its limit change nothing (`FailureCap`). A timestamp has one
  entry: of several with the same one a failure may lose all but the first, which
  the query (`>` the last timestamp) makes plain, and the properties are about
  timestamps.
* `scheduled_scrape`: two databases, so that a request of one warmup meets the
  pass that another has caused, and a channel is shared. One file and
  2 edits, so that a definition is replaced, broken, removed and restored around
  a reload. The capacities are compared with what one metric or none sends; the
  numbers of a pass do not depend on those of another.
* `state_reports`: two goroutines of one process commit in the wrong order, and
  one of each process meet; a second one of the old leader adds an order that the
  new leader's two have already. Each process has a database that the other does
  not have, so that either deletes rows of the other. One change of the states per process tells a stale report from
  a fresh one.
* `operational_samples`: with an interval of two and five instants there is a
  late tick behind the pass of a warmup, a pass that is too early, and three
  readings. Two events combine a failure with a change, or two changes.
* The runs `sink_buffers`, `scheduled_scrape` and `operational_samples` allow the
  system to stop: the process ends, or the clock has reached its bound.

**Fairness.** In `ConnectionLifecycle` every goroutine that can run does, and
queries and connection attempts return (each has a timeout). Waiting for
`reconnectMU` needs strong fairness: a waiter is enabled again and again rather
than for ever, and Go's mutexes do hand over to starving waiters. A phase has
finitely many queries, hence fairness of its end. In `LeaderElection` the steps of
`run()` and `Monitor` are weakly fair, and some `Acquire` is strongly fair:
standbys retry for ever, so a lock that is free again and again is found free
by one of them. PostgreSQL ends dead sessions eventually (TCP keepalive).
In `AlertLog` time passes, a call ends in the end, and the loop comes back to each
database (strong fairness, since the call for another database gets in between).
`EntryExported` has premises of its own: failures, restarts and removals come to
an end, and they have not left a torn line that the scan runs into.
In `StateReports` every goroutine goes on reporting (both loops have a timer and
their queries have timeouts), and a write that is tried again and again succeeds
in the end, which is strong fairness of `Commit`. That a clock is behind for at
most `MaxBehind` reports says that it catches up.
Elsewhere nothing is assumed about Oracle, stops, kills, lost sessions or failovers.

## 4. Where code and documentation disagree

`conn_lock_leak` shows one: `scanRows` (`collector/collector.go:555`), and the
same shape in `performance.go`, returns on an expired context before `unlock` is
deferred. Rows that arrive as the deadline passes leave the read lock held for
ever; the next writer blocks, then every reader, and the target is never
restored. `README.md:36` promises that DCD "restores them without delaying
normal collectors".

The models show four more behaviours that a reader of the documentation may not
expect. They are how the code works, and the properties are stated with them in
mind:

* `beginProbe` takes the write lock of every database, active ones too, and so
  does `setUp` after each ping. While that writer waits for a slow query of the
  scheduled scrape, the activity loop blocks in `connectionState()`
  (`activity.go:92`: "Slower SQL and plan collectors cannot delay this loop.").
  `ActivityGoesOn` states what remains: the loop goes on in the end.
* Between the end of the lock session and the next validation by `Monitor` two
  instances collect and write (`README.md:84`: the instances "elect one active
  scraper"). `Leadership` states the weaker promise that holds,
  `DeposedLeaderStops` that the overlap ends, and `StateReports` lets the reports
  of both meet in the table.
* The counter query covers two scrape intervals, and a snapshot keeps only what
  the query returned. A cursor that was idle for longer comes back without a
  previous value, and its whole history counts as work of the interval
  (`performance.go:298`; `performance.go:320` says of a similar case: "Counting the
  complete lower value would manufacture workload."). `NoManufacturedWorkload`
  speaks of SQLs whose cursors stay in the window.
* The UPDATE of the text references (`postgresql.go:1791`) locks nothing when the text
  is not there yet. Another writer whose batch is older may insert the text and
  commit before this transaction does (`postgresql.go:1144`), and the sample is
  stored with a text that was last referenced before it. When a midnight lies between
  the two times, `deleteExpiredSQLTexts` (`postgresql.go:2787`) removes the text up to a
  day before the partition of the sample, unless a later batch mentions the SQL.
  `ReferencesKept` states what remains: such a text is kept for the retention
  period less the time a batch waits for its commit.

## 5. Proofs

The theorems hold for every value of the constants: any number of databases and
any configuration, any set of instances or writers, any interval, lookback,
buffer size, day length and retention period, and no bound on edits, failures
and restarts (the `Max...` constants are arbitrary naturals). They rest on the
named assumptions of the modules, which TLC evaluates in the runs:
`ConnectionAssumption`, `InstancesAssumption`, `WatermarkAssumption`,
`SinkAssumption`, `DefinitionsAssumption`, `ScheduledAssumption`,
`RetentionAssumption`, `OperationalAssumption`, `AlertLogAssumption`,
`MissingAssumption`, `ConsumersAssumption` and `ReportsAssumption`. Most of them
say that numbers are numbers and that names differ. Some carry content:
`MaxDelay < Retention` (a batch is committed before it is as old as the retention
period), and that there are finitely many writers, tablespaces, cursors, databases
of a process and goroutines that report. `NoRowSkipped` and `StoredOnce` have their premises (the lag, no
unheard commit) in the property.

Each invariant below was checked with TLC before it was proved. In each module a
lemma per action, or per part of the invariant with a case per action, shows that
it is preserved; a theorem `...Invariant` puts them together, and the listed
theorems follow from it.

**Connections.** None of the invariants is inductive. `ConnectionLifecycleProofs!IInv`
adds to the type invariant

* `ControlInv`: a loop works only on the database at its position
  (`Positions`), collectors enter only after startup is ready (`StartupGate`),
  and DCD probes a database only after its warmup is over (`ProbeAfterWarmup`),
  because a database leaves `STARTING` only through warmup. The invariants
  `WarmupUndisturbed`, `QueuedWhileUnavailable` and `ProbeOwnedByDcd` are part
  of it.
* `PoolInv`: what a goroutine uses is the session or, in a probe, the candidate
  (`PoolUse`), which pools are open at each point of a probe (`OpenPools`), and
  where the session cannot be nil (`SessionExists`).

Three lemmas (`TypeStep`, `ControlStep`, `PoolStep`) show that each action
preserves its part; the heart is `DcdSwap`: it closes the old pool, and nobody
uses it, because the write lock excludes readers and `ProbeAfterWarmup` excludes
the warmup, the only user without a lock. `OutageStartKept` follows from the
type invariant and the shape of the steps. `OutagesAlwaysTracked` and
`PoolsAlwaysSafe` collect the parts of the invariant that the run checks.

**Election.** `LeadersProofs!IInv` adds where an instance has a lock
connection (`Elected`), a sink (`SinkAfterElection`), and collectors
(`WorkWhileActive`). `RefinesLeadership` shows that each step is a step of
`Leadership` or leaves the roles alone; `Acquire` is `Elect` because a free
lock means, by `SessionOwnsLock`, that no instance has a live session.

**Activity watermark.** `PerformanceProofs!IInv` adds to the type invariant
that an invisible row is younger than the lag (`Clock`), what the locals of the
pass are at each point (`Locals`), and that a row which a query did not see is
less than an interval older than any row it saw (`Fetched`). The step that matters is
`MoveWatermarks`: a row below the new bound that is not stored would have been
visible when the query ran, because it is older than the newest row read by more
than the lag; so it was read, and it has been written. That `LatestASH` exists
for a finite range of times comes from the well-founded order on the naturals.

**Connection state table.** `LeadersProofs!ReportsInv` says of the reports and rows,
ghosts included, that a report has not seen more than the states are (`SeenBefore`),
that the stamps of a process are in the order of what its reports saw
(`StampedInOrder`), that a report which is older than a committed one has an earlier
stamp than the row (`LateReportLoses`), and that a report with an earlier stamp than
a row of its own process has seen no more than this row says (`LoserSawLess`).
The parts are operators of the reports and rows rather than of the variables,
because each step ends with `Renumbered`: they are shown for the stamps before it,
and carried over by the lemma that ranks keep the order (`RankOrder`, which needs
that finitely many stamps are in use). The first attempt failed on `Commit`, and the
counterexample is the behaviour described with `StateReports` above: `TableFresh`
used to be claimed only while one process runs; now it also covers the overlap and
speaks of what was committed since a row was deleted.

**SQL consumers.** `PerformanceProofs!ConsumersInv` adds to the properties that the
cursors of a SQL that has not been idle are all sampled (`CursorsSeen`), that a
counter is below its snapshot only after it was aged out (`CountersGrow`), and that the
sum of the deltas which a pass would compute now for the cursors of a SQL is at most,
or without ageing exactly, the ghost `fresh` (`PendingExecuted`). So the proof needs that a sum over a set
changes by what one element changes. The library's induction theorems cannot be
used for that, so the lemmas on sums (`SumStep` to `SumChangedAt`) argue by a smallest
counterexample: a finite set for which the property fails while it holds for every
smaller one exists because cardinalities are well-founded (`SmallestSet`).
`PlansKept` says that a known plan is whole in the table or in the batch to be written.

**Sink.** `SinkBuffersProofs!IInv` is `TypeOK`, `RuntimeInv`, `IngestInv` and
`Closing`. `RuntimeInv` adds to the properties who holds a batch (`Holding`), that
no sample is newer than the last one recorded (`Recorded`), that a sample in memory
is in one place there and was not dropped (`OneHolder`), and that, while every commit
is heard of, what is stored is nowhere else (`StoredApart`). This is what makes
`StoredOnce` inductive: a batch that is written holds nothing that is stored.
`RefinesTelemetryLog` shows that each step is a step of `TelemetryLog` or leaves
what is held, stored and dropped alone. A commit is `Store` because no other place
has a sample of its batch (`OneHolder`); a buffer that is cut is full, and its
samples are distinct, so as many as the limit stay (`CutLeavesLimit`); a sample just
recorded is the last of the queue and not cut off.
`IngestInv` adds that row counts in
a flush belong to the holder of `ingestFlushMu` (`FlushOwned`), `Closing` what an
undisturbed `Close` has behind it. The lemmas about queues say what appending,
putting a batch in front and cutting the front off do to the set of elements and
to their being distinct; `NewestOfBoth` says that the newest sample of a union is
the newer of the two newest, which is the upsert of the latest status.

**Scheduled pass and definitions.** `ScheduledScrapeProofs!IInv` has three parts.
`DefinitionInv`: nothing loaded or hashed is newer than its file; a reload goes on
only while some hash is behind its file; without one, a hash is behind, or an edit
fell between reading and hashing (`raced`), or the definitions are those of the
files; and what a reload has read and hashed so far. `PassInv`:
where each goroutine stands in each phase of the loop, that a warmed-up database
has been found, is yet to be looked at, or has a request queued (`WarmedUp`), and
that a gap in what was collected shows in the status or the errors at hand
(`Trouble`). `SentOnce`: a channel holds at most one message for each point of
sending that a database, or a pair of a database and a file, has passed;
`ScrapeRoomToSend` follows, since these are subsets of what the capacities are
computed from. The proof of `TroubleReported` corrected the ghost `outside`,
which another quarantine after the end of a database's goroutine used to
reset; the run allows one such quarantine and had not met this.

**Retention.** `RetentionProofs!IInv` says that a waiting batch is younger than the
retention period (`Fresh`), that a sample is in its partition (`Placed`), that one
cleanup runs at a time, with a cutoff a retention period ago (`OneCleanup`), and
what the cleanup has behind it (`Progress`): a sample that is still there was
collected on the day of the cutoff or later, or its partition is yet to be
dropped. A commit in the middle of a cleanup keeps this because of `Fresh`.
`References` adds how old a reference may be. `Held`: an item is written by one
transaction at a time, and its new time is at least the committed one and the
beginning of the batch's day, so that no commit moves a time back. `Unseen`: a text
that the UPDATE has not found is still absent at the commit, or was committed since
by a batch at most `MaxDelay` older. `Recent` carries both into the stored
samples: an item that was written is dated on the sample's day or later, one that was found
at most `MaxDelay` before the sample. With `Progress`, a delete by the day of the cutoff
spares every item that was written; one that was found goes only when the retention
period less `MaxDelay` is over (`ForgottenStep`). `RetentionReferencesKept` is
`ReferencesKept`. `DayStart` enters only through lemmas on division (`DayOf`,
`DaysAligned`, `DaysOrdered`, `SampleDay`).

**Operational samples.** The heart of `OperationalSamplesProofs!IInv` is `Order`: a
pass is later than everything in the repository, across restarts and late ticks,
so a write replaces all latest statuses and the views show one pass. `Counted`
says that a snapshot is an interval older than a pass which has yet to read, and
that a counter is its snapshot plus the work since, unless the instance was
restarted. `ListCollected` and `DataGuardCollected` relate the batch in hand to
what Oracle had: `Apply` changes no name and is injective on rows, so the number
of rows and their names survive it; the Data Guard rows are those that were asked
for, of the one role the database had. `Stored` carries this into the tables.

**Alert log.** `AlertLogProofs!IInv` says of each file that an entry is in one line
(`OneRecord`), that the records of a database are in the order of their times
(`Sorted`), were really in its alert log (`Genuine`) and leave no timestamp out
(`NoGap`), and of the call in hand that a torn last line is one it cannot get past
(`TornEnd`), that its bound is the time of the last record (`AskingOK`), and that
the rows it has yet to write are newer than all it has written (`RowsOK`). The
backward scan is treated through its result: the last line that matches or cannot
be parsed, which exists because positions are well-founded (`Greatest`). The theorems
hold for shared files and for one file per database, and with several entries of
one timestamp, which the run does not have. The backoff has no part in them.

**Only model-checked.**

* The liveness properties (`TargetRestored`, `ActivityGoesOn`,
  `DeposedLeaderStops`, `StandbyTakesOver`, `EntryExported`, `TableConverges`):
  the prover does not handle fairness. The violation of `conn_lock_leak` is one
  of them.
* `NoSendBlocks` is stated with ENABLED. `ScrapeRoomToSend` proves the guards
  behind it.

## 6. What the model does not cover

* HA disabled: `run()` without the election is the path from `OpenSink` on.
* Contents of samples, Oracle queries, row mapping, DDL and column lists: data
  without control of their own.
* Configuration, secret stores, the landing page, logging: sequential, before the
  goroutines start, or pure I/O. Schema and migration: `New` runs them once, before
  there is any other user of the sink.
* The gate of `connect_godror.go` for new physical connections, which all targets
  share: a reachable target may wait behind one that hangs.
* Whether a metric with an interval of its own is due (`cache.go`,
  `isScrapeMetric`): left open in `ScheduledScrape`. Missed intervals, lags and
  durations of `runtime.go`: arithmetic on two times.
* The session source of the activity sampling, which keeps no state.
* Two writers that stamp `ObservedAt` and then queue in the other order: stamp and
  queue are one step in `SinkBuffers`. Out-of-order batches arise there from
  failed writes, and `writeRuntimeSamples` treats both alike.
* SQL plans in the retention, and the deletes of old latest statuses (section 2).
* A shutdown of the collectors in the middle of a probe.
* Dashboards, containers, Kubernetes manifests, `thirdparty/`, scripts and tests.

## 7. Checking

In this directory, for each run of `PROJECT.json`:

    tlc -config MCConnectionSafety.cfg MCConnectionLifecycle

and for the proofs

    for m in *Proofs.tla; do tlapm $m; done

The longest run takes a few minutes, and so do all the proofs together.

## 8. Plan

Every component with state of its own has a module. What is left:

1. `ConnectionGate`: the connection attempts of `connect_godror.go` and their
   limit, including attempts that outlive their timeout.
