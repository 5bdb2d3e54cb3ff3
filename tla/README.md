# Formal models of the BKK collector

TLA+ specifications of the collector in this repository, the TLC runs that check them on small
instances, and TLAPS proofs of the properties that matter most. Paths below are relative to the
repository root; `bkk_collector/` is abbreviated to `b/`.

## 1. The system

The collector polls three GTFS-Realtime feeds of BKK (VehiclePositions, TripUpdates, Alerts) on
independent schedules and archives what it sees so that it can be reconstructed later: complete raw
responses, changed rows in Parquet, a presence log of TripUpdates, and one journal event per poll.
One process ingests; a second one maintains the archive; a third one exports public snapshots.

| Component | State | Operations | What is hard about it |
|---|---|---|---|
| Feed scheduler, `b/realtime/realtime_scheduler.py` | per feed: next deadline, current future, "a result is pending", counters; a bounded result queue | `step`, `get`, `acknowledge`, `stop_and_drain` | three kinds of threads; missed deadlines; back-pressure; the order of shutdown |
| Ingestion, `b/collector.py` | time of the last raw record, suspect raw logs, auxiliary signature | `process_result`, `_archive_raw`, `recover_recent_raw_tails`, `run` | every call may fail; one fallback backs another; what memory claims must be on disk |
| Change tracker, `b/realtime/dedup.py` | last written values per row key and date | `filter` (select), `commit` (advance) | two phases around a write that may fail; small changes that add up; midnight; heartbeat |
| Presence log, `b/realtime/tripupdate_presence.py` | membership, date, stream, sequence; the log on disk | `observe`, `invalidate`, replay | memory and log must agree; gaps must start a new baseline |
| Raw log, `b/storage/raw_log.py` | a file of records per feed and date, a checkpoint, forensic copies | append, scan, repair a torn tail | torn appends; what is written behind them; a reader beside; destructive repair |
| Poll journal, `b/storage/poll_journal.py` | JSON lines per feed and date, a checkpoint | append, repair | the last write of a poll may fail; lines that merge |
| Spool and Parquet store, `b/storage/parquet_store.py` | spool segments, commit markers, Parquet parts | `stage`, `flush` (recover, commit) | crash between any two file-system calls; regrouped batches |
| Commit worker, `b/storage/parquet_worker.py` | stop event, health state | `_run`, `snapshot`, `stop` | runs beside staging; may be cut off |
| Atomic files, `b/storage/atomic_io.py` | none | write, fsync, rename | crash in the middle |
| Health monitor, `b/monitoring.py`, `b/cli/healthcheck.py` | per feed: last success, last change, flags; the same on disk; the status file | record, evaluate, write, check | what memory, state file and status say may differ, and all but memory outlive a restart |
| Maintenance, `b/maintenance.py`, `b/storage/parquet_compact.py`, `b/archive/*.py` | compacted parts, transactions, manifests, backups | compact, manifest, back up, prune | deletes after copies; several transactions in a row |
| Static GTFS, `b/archive/static_gtfs.py` | versions of the static feed, a history of checks, a state file | index, download, install, look up | three files that must agree; torn history lines; versions that come back |
| Backlog and migration, `b/archive/backup.py`, `b/cli/migrate_legacy.py` | receipts, the legacy inventory | take up dates, back up, inventory, confirm | dates that block others; a tool beside the worker |
| Other offline tools, `b/cli/*.py` | none of their own | rebuild, diagnose, verify | rebuild's install step |
| Public exporter, `public_exporter/` | offset into the raw log, last snapshot | read, build, publish | reads a log that is being appended to |
| Public site, `frontend/worker/`, `frontend/src/` | the published snapshot; the page's poll | publish, serve, poll | late, lost or competing publications; aborted polls |

How they interact. The scheduler thread submits requests to an executor and moves finished ones into
a bounded queue. The main thread takes one item at a time, runs `process_result` on it, and only then
acknowledges it, which lets the feed's next result into the queue. `process_result` writes to the raw
log, the presence log, the spool and the journal, in this order, and keeps the tracker and presence
memory in step with the disk. Spool files are the only link between ingestion and the commit worker:
no queue or lock is shared. The exporter and the maintenance process see the files only.

## 2. Modules

| Module | Models | Theorems |
|---|---|---|
| `ParquetSink` | the promise of the spool: accepted polls are published atomically and at most once, and those of readable partitions eventually | |
| `SpoolCommit` | `DurableParquetSpool` and `ParquetCommitWorker`, call by call | `SpoolCommit_proofs` |
| `FeedScheduler` | `IndependentFeedScheduler` and the loop of `Collector.run` around it | `FeedScheduler_proofs` |
| `CollectorPipeline` | `process_result` for TripUpdates with raw log, tracker, presence log, spool and journal | `CollectorPipeline_proofs` |
| `EvidenceArchive` | the promise of the archive: a date's evidence is pinned off-site as a whole before any of it leaves the disk | |
| `ArchiveMaintenance` | `maintenance.py`, `parquet_compact.py`, `manifests.py`, `backup.py`, `retention.py` for one date, beside the commit worker | `ArchiveMaintenance_proofs` |
| `RawLog` | one raw log piece by piece: `append_record`, `repair_truncated_tail`, and the exporter's `LatestVehicleFrame` | `Ingestion_proofs` |
| `PollJournal` | one poll journal piece by piece: `append_poll_jsonl`, `repair_jsonl_tail` | `Reports_proofs` |
| `ChangeTracker` | `dedup.py` on numbers and a clock: tolerances, heartbeat, sweep, null guard | `Ingestion_proofs` |
| `HealthMonitor` | `monitoring.py`, the loop that drives it, and the container's healthcheck | `Reports_proofs` |
| `StaticGtfs` | `static_gtfs.py` as maintenance drives it, and its lookups | `MaintenanceTasks_proofs` |
| `BackupBacklog` | the backup's worklist over many dates, and `migrate_legacy.py` beside it | `MaintenanceTasks_proofs` |
| `SnapshotPublication` | exporter, worker and page over an unreliable network | `SnapshotPublication_proofs` |
| `MC_*` | definitions for the instances that a configuration file cannot express | |

The modules meet at these interfaces. `FeedScheduler` hands polls to the processor once and in order
(`ReportedOnceInOrder`); `CollectorPipeline` starts from that: it takes polls one at a
time in order, with at most two left at a shutdown (`BacklogBounded`). `CollectorPipeline.Stage` is
`SpoolCommit.Stage`: all or nothing, and what was staged reaches Parquet once (`ParquetSink`).
`ArchiveMaintenance` has `SpoolCommit` as its neighbour in another process: it keeps of it, per
feed, the open commit, the write of the part, the unlinks and the end of the commit, because those
are the files that compaction, manifest and retention look at. `ParquetSink.Publish` is its
`WritePart`. `RawLog` and `PollJournal` open up one call of `CollectorPipeline` each (`Append`,
`Journal`): `AckedReadable` and `JournalSound` are what the pipeline takes an append to be, and
`ChangeTracker` opens up its `Filter` and `With`. `BackupBacklog.BackUp` is the pass of
`ArchiveMaintenance` that ends in a receipt.

### SpoolCommit

State on disk: `spool` (segments), `markers` (commit-*.json, each as the set of its sources), `parts`
(validated parts, likewise). An output file is named by a digest of its sources, so a part and its
marker are the same set; "m in parts" stands for "the output exists and has the expected number of
rows", the test both `_recover_commits` and `_commit_segments` make. The worker's memory is its
control point, the markers still to recover, the blocked partitions, the snapshot of segments, and
the commit in hand. Each file-system call of a commit is an action: write marker, write part,
validate, unlink one source, unlink marker. Any of them may raise (`FailRecovery`, `CommitFault`),
any pair of them may be separated by `Crash`. Segments are numbers, their order being the order of
`sorted(glob)`: names are random, so a later segment may sort first. `Corrupt` segments are those
`_read_segment` refuses.

### FeedScheduler

`Step(current)` is the body of `step` under the lock: the first loop moves finished futures whose
predecessor is acknowledged (`Moves`), the second one passes due deadlines (`Due`), and submits
(`Submits`) or counts them (`Coalesced`). The clock is read in `Wake`, before the lock is taken, so a
step may run with an old reading. The ready items reach the queue one by one after the lock is
released. `Complete` is an executor thread. The main thread's shutdown is modelled statement by
statement: stop accepting, set the stop event, join the thread, wait for the executor, drain, reset
the pending flags, step once more, drain again, process what was drained.

### CollectorPipeline

`pc` follows `process_result`: raw attempt, parse, auxiliary entities, presence, filter, stage,
fallback, health, journal, last resort. A response is one of five kinds (no payload; does not parse;
not a FULL_DATASET; required signals null for too long; good) with a value per trip and a state of
the auxiliary entities. `staged` is what a reader reconstructs from the rows of today's partition,
`presenceLog` what replaying today's presence log gives, and whether the replay's checks pass.
`rawTail` says how the raw log of each date ends; a record behind a torn one counts as lost. A failed
append may have written nothing, a part, or everything. How long ago something was archived or
written is left open: a raw attempt may or may not be due, and the tracker may forget any trip
(heartbeat), at any poll.

### ArchiveMaintenance

One UTC date after ingestion, from its spool segments to its eviction. `disk` holds the raw logs and
the Parquet files of the date; a file is identified with its content (feed, kind, set of segments),
as parts, merged parts and artifacts are named or compared by digests. `txn[f]` is
`.compaction-transaction.json` with its sources, `manifest` the daily manifest with the artifacts it
lists, `receipt` the installed receipt with the revision it names, `intent` the `prune-*.json` plans,
`head` the newest revision of the dataset repository. `pc` follows one pass of
`MaintenanceWorker.run`: compaction of the feeds in order, the manifest (journal and row count of a
feed first, its pending segments second, the list of artifacts last, as `build_daily_manifest` does),
the uploads (manifest first), verification at a fixed revision, the receipt, then retention of raw
logs and of Parquet. `feeds` are those a loop has yet to visit; `job` the files yet to upload or to
unlink.

A pass may skip compaction or backups: each tests the clock for itself (backup hour, retry
interval). Every call may raise, which ends the loop step, the backup or the eviction at hand as the
`try` blocks do; an upload may be lost or take effect before it raises (`UploadLost`, `ReceiptLost`,
`BackupFails`); either process may die between any two calls, and leaves a temporary file when it
dies while writing one (`litter`). Segments that the journal does not count (`Journaled`) exist when
a poll died before its journal event: for those the row count alone would not notice that they are
missing.

### RawLog and PollJournal

Both follow one file byte range by byte range, at the coarsest grain that can still tear: a raw
record is two pieces, and a journal event is two pieces and a separator. `synced` is how much of the
file an fsync has covered, `checkpoint` what the checkpoint file says, and `pc` the next call. An
interrupted call leaves what `Interrupted` allows for that call: nothing, a part, or all of it
without its return. `Raise` is an exception (the raw log is suspect from then on, and is repaired
before the next append); `Kill` takes the process only; `PowerLoss` also takes bytes that were not
fsynced, of which a prefix remains, while renamed files (checkpoints) stay, as `atomic_write_json`
syncs them. A repair of a raw log is five steps (scan, copy, sync the directory strictly, truncate,
checkpoint), and a restart begins with one. In `PollJournal` the forensic copy is part of the repair
step, since `RawLog` examines that order already; what is at stake there is where lines end. The
exporter reads the checkpoint in one step and the file in a later one, and keeps its offset and its
frame in between.

### ChangeTracker

`Poll(t, rows)` is one pass of `process_result` through `filter`, `stage` and `commit`: the reset at
another date, the sweep of entries past their heartbeat, the selection row by row (a row is compared
with the rows before it in the same poll), the null guard, and either durable rows and their
commitment or a refusal that leaves the memory alone. Values are numbers or null, the clock is any
instant of `Times` in any order. `staged` is the reference: the last row in Parquet per date and key.

### HealthMonitor

`memory` is `self.feeds`, `saved` the state file, `status` the status file. `truth` repeats what
happened to each feed without forgetting, across processes, and says whether the event of its last result
is in the journal. A result is recorded and saved (`Respond`, `NoResponse`), journaled (`Journal`, which
changes memory only), and a status is written. Two things cut a result off before its event: a save that
raises, although memory has changed by then (`Recorded`), and an unexpected error of the request's thread
or of the processing before the monitor was told (`Abort`); either is one `cycleError`, which the next
status drops. `Limit` is the silence `write_status` allows a feed, `absent_seconds` or three of its
intervals. `good` stands for the checks that look at one response, a signal in `Signals` for the content
hash or the header timestamp, which may freeze. `unaware` are the feeds the monitor has missed something
of and does not know the truth of again, `hidden` the other ones that had a problem when the status was
written.

### StaticGtfs

Paths are dates (archives of the old collector) or digests (installed versions). `history` holds the
lines of `history.jsonl`, junk included, and `unended` how the last one ends; an append goes onto an
unended line. `Download`, `Install`, `AppendEvent` and `WriteState` are the steps of `check`;
`BeginPass`, `Index` and `EndIndex` are `migrate_legacy_archives`. An exception in the former is
recorded, one in the latter ends the process. `ObservedAt` and `Covering` are `observed_version_at` and
`observed_timeline`.

### BackupBacklog

Dates are numbers; what is left of one is its kind (`lacking`: no journals or damaged for good; `staged`:
its spool not committed yet; `whole`). Its files come in two parts, because the repository tells different
things of them: `content` is the version of those kept as LFS objects, compared by SHA-256, and `text` the
ordinary Git files, the manifest among them, each version a stamp and a size. A copy of a date has a set
of versions of the one, as an upload leaves LFS files of other names alone, and one text; `remote` is the
copy the repository holds at its head, `receipts` the copy that the `remote_revision` of a v2 receipt
names. Every check of the static archive outdates the complete manifests
(`CheckStatic`), and every build writes another text, at the same size or at another one (`Build`).

One loop of maintenance takes up pending dates oldest first, skips incomplete ones, stops at the upload
limit or at a failure; `Upload` and `BackUp` are the two halves of `backup_date`, before and after the
revision is fixed, so that the tool's uploads come between them. The tool inventories the completed dates,
then takes the bytes of each (`Copy`), which arrive after whatever the worker did meanwhile (`Send`), and
looks at the repository again (`Confirm`, with the tests of `_remote_statuses`: SHA-256 for LFS objects,
size for ordinary files); it writes the inventory once. `held` is the history that the tool's claims are
held against: the dates of which the repository has held, at some moment since the inventory, a copy that
looks as inventoried.

### SnapshotPublication

A request carries the time of its snapshot and goes through the worker in two steps, `Head` and `Put`;
it may be lost before either, and its answer may come when the exporter no longer waits. Two exporters
model a redeployment. The page's polls have identities, so that the result or rejection of an aborted
one can be told from the current one's (`active`).

## 3. Runs

| Run | Instance | Checks |
|---|---|---|
| `spool` | 2 partitions, 5 segments (one corrupt), batches of 2, 2 failing calls, 2 restarts | `NothingLost`, `ExactlyOnce`, `CleanFlushIsClean`, `ImplementsSink` (refinement of `ParquetSink!Spec`, liveness included), `HealthyGroupsDrain` |
| `scheduler` | 2 feeds with intervals 1 and 2, five instants; requests of the slower one may never return | `DeadlinesAccounted`, `ReportedOnceInOrder`, `BacklogBounded`, `DrainedAtExit`, `ShutdownCompletes`, `EveryPollHandled`, `IndependentFeeds` |
| `pipeline` | 1 trip, 2 values, 2 auxiliary states, 3 polls, 2 failing calls, 1 restart, two days | `StagedRowsReconstruct`, `PresenceReplayable`, `DeltaFollowsPoll`, `JournalBacked`, `AuxiliaryArchived`, `OneFaultLosesNothing`, `NoSilentLoss` |
| `archive` | 1 feed, 3 segments (one unknown to the journal), 1 failing call, 1 crash | `NothingLost`, `RowsReadOnce`, `TransactionsResumable`, `EvictionResumable`, `ImplementsArchive` (refinement of `EvidenceArchive!Spec`, liveness included), `CleanDatesEvicted` |
| `archive_marker` | the same with 2 segments, and no pass that skips compaction of a pending date | `MarkerCompletesCleanup`: **violated** |
| `rawlog` | 3 responses, 2 failing calls, 2 deaths of process or machine | `AckedReadable`, `TailsPreserved`, `ExporterHoldsCommitted` |
| `journal` | 3 events, 3 failing calls, 3 deaths | `JournalSound` |
| `tracker` | 1 key, a field of tolerance 1 and one of tolerance 0, 4 instants over two dates, heartbeat 2, 4 polls of up to 2 rows, 1 restart | `NoDrift` |
| `health` | 2 feeds, 1 signal, 4 instants, 1 failing write or result cut off, 1 restart | `HealthyIsTrue` |
| `static` | 2 versions, 2 dated archives (`Horizon` 2: the dates -1 and 0), 5 instants, 2 failing calls, 1 death | `VersionsKept`, `OneTearLosesOne`, `TimelineAgrees` |
| `backlog` | 2 dates, 1 upload per run, 1 run of the tool, 1 trouble (a failing call, a death, a check of the static archive, or a manifest that comes out as another text without one) | `LegacyClaimsHeld`, `ReceiptsPinned`, `WholeDatesBackedUp` |
| `publication` | 2 exporters, 2 instants, 3 polls of the page | `HealthyIsPublished`, `PollingOnce`, `NeverOlder` |

Each component's module also has its type invariant (`TypeOK`), which is proved as a part of the
inductive invariant (section 4).

### Where code and documentation disagree

The repository's documentation says six things that the code does not keep. None of them loses
evidence that was acknowledged. `archive_marker` checks the first and shows the violation; for the
others the property that does hold makes the exception explicit.

* README line 203: "A transaction marker completes cleanup after a crash". The maintenance process dies
  with a compaction transaction open; in the next pass its resumption raises once;
  `compact_pending_dates` records the error and `run` goes on to `maintain_backups`, which backs the
  date up as it is, sources and output together, and installs the receipt. `_v2_pending_dates` no longer
  returns the date, so nobody looks at the marker again; a reader of the partition sees rows twice for
  good, and `_inventory` refuses to prune it. `CleanDatesEvicted` excepts such dates for this reason,
  and dates with a temporary file left by a crash, which retention refuses as well.
* `raw_log.py:133`: "A successfully fsynced append writes this checkpoint afterward". A process killed
  between the write and the fsync of a record leaves a clean tail; the repair at the next start writes a
  checkpoint over it without an fsync. The same holds of `repair_jsonl_tail`. If the machine then loses
  power, the checkpoint may lie beyond the end of the file; the next repair notices and scans from the
  beginning, so acknowledged records stay readable (`AckedReadable`), and `ExporterHoldsCommitted`
  excepts what happens to the exporter from then on.
* README line 422: "`history.jsonl` records every successful observation". A torn line takes the event
  of the next successful check with it. `OneTearLosesOne` is what remains true.
* README line 474: "Poll-journal write failures remain unhealthy until that same feed durably appends
  another event". The flag is set in memory after the state was saved, and a restart before the next save
  forgets it. A result whose state could not be saved is not processed any further: its event is never
  appended, the flag is not set, and only the status of that one cycle shows it. `HealthyIsTrue` excepts
  such a feed (`unaware`) until its next result is journaled.
* README line 478: maintenance "independently checks [...] a stale v2 backup backlog". The migration
  tool marks every date as handled that is not `v2_complete` at that moment, among them v2 dates whose
  spool is still being committed or whose manifest is out of date; they leave the worklist and the
  backlog's count alike. `WholeDatesBackedUp` excepts what the inventory lists; no property says more of
  the tool's decision.
* `backup.py:215`: "equal size is not equal content". The worker downloads ordinary Git files for this
  reason, and `ReceiptsPinned` is about their content. `migrate_legacy.py` does not
  (`size_match_checksum_unavailable`): a manifest that is rewritten at equal size between the inventory and
  the upload is called confirmed, and the `sha256` in the receipt's list of artifacts is one the repository
  never held. The receipt's "verification" text says as much ("SHA-256 additionally checked for LFS
  objects"), and `LegacyClaimsHeld` says no more than that text.

Each property is stated with its comment in its module, and each is broken by at
least one of the operators named `X_Something`, which stand beside the operator `X` they would
replace and show the mistake the property guards against.

Why the bounds are enough. *Spool*: the second partition needs two batches, so a crash can fall
between them and a regrouping can differ; the first partition, which is always visited first, can be
committed before its corrupt segment arrives and is stuck afterwards; two failures allow a failed
recovery of a failed commit. *Scheduler*: the three threads interleave freely
at every instant; four ticks let a slow feed miss, recover and miss again while a result is queued, and
a request of the slow feed may end at any time or never. *Pipeline*: a baseline, a delta and a failure
need three polls, of which any one may be the first of the second day; two failures let a repair fail
after an append failed; the proofs cover several trips. *Archive*: two parts of one feed are the least
that is compacted (`MinFiles` = 2); the third segment can still be spooled, or be published late, while
they are merged, and it is the one without a journal event; one failure and one crash anywhere interrupt
each of the five transactions (commit, compaction, manifest, receipt, eviction) and its resumption.
Feeds meet only in the manifest and in retention; the safety properties and the refinement are proved
for any number of them.
*Raw log and journal*: two faults let a repair fail after a torn append, and
two deaths let a repair be cut off and its successor as well; three records leave one before, one at
and one behind the tear. *Tracker*: two small steps exceed a tolerance of one; four polls let a value
drift, expire and come back; two rows give a poll that contradicts itself. One key suffices since keys
do not interact but through the sweep, which acts on each alone. *Health*: a feed that is allowed to be
unchanged and one that is not, of intervals 2 and 1 beside an `absent_seconds` of 4, so that three
intervals are the limit of one (6) and `absent_seconds` that of the other (4); at the instants 0, 3, 6
and 8 a status may be written before and after each limit passes and outlives it by its maximal age; one
fault and one restart are the least that lose a record, and any number of results may follow. *Static*:
five instants at an interval of two let a version come back after another one was observed. *Backlog*:
one date in front of another one, and a limit of one; two sizes, so that a rewritten file may be told by
its size or not; failures, deaths, checks of the static archive and texts rewritten without one
share one bound (`MaxTroubles`), since each of them alone ends a run of the loop or outdates a manifest (a
rebuild after a check of the static archive is free). The spool of each date may be committed at any time.
*Publication*: two instants are one older and
one newer snapshot, each in flight from both exporters; three polls let two aborted ones be on their
way while the third is current.
`pipeline` and `health` take values as interchangeable (they are compared for equality only); no run that
checks liveness uses symmetry. The proofs remove the bounds for the properties
they cover.

`CHECK_DEADLOCK FALSE` is set where the system really stops: the scheduler after its shutdown, and the
models that end when their bounded inputs are used up (pipeline, journal, static archive, tracker,
publication).

### Fairness

* `SpoolCommit`: the worker thread keeps running (`WF(WorkerStep)`; `_run` loops until stopped and
  waits at most the flush interval or 30 seconds), and the container manager restarts the process
  (`WF(Restart)`; `restart: unless-stopped` in `docker-compose.yml`). Nothing forces a failure, a
  crash or a staged segment.
* `FeedScheduler`: scheduler thread and main thread run, time passes, and a request ends
  (`fetch_feed` sets a connect and a read timeout), except those of `Hung` feeds, of which nothing
  is assumed: `ShutdownCompletes` and `EveryPollHandled` hold unless such a request is in progress for
  ever (`HungForEver`), and `IndependentFeeds` holds all the same.
* `CollectorPipeline` makes no liveness claim.
* `ArchiveMaintenance`: both processes keep running and are restarted (`WF(CommitStep(f))`,
  `WF(MaintenanceStep)`, with `Restart` among its steps), and dates grow old (`WF(Age(k))`). A pass
  may skip its backups, but not always: the hour of the backup comes every day and a retry interval
  ends, so building or reusing the manifest and starting retention are strongly fair. Nothing forces
  a failure, and after the last one nothing fails: a call that always raises is not assumed to
  succeed in the end.
* `BackupBacklog`: the maintenance loop runs on (`WF(MaintenanceStep)`; `run` loops with a bounded wait),
  and neither the uploads nor the verification and receipt after them fail every time they are tried
  (`SF(Upload)`, `SF(BackUp)`; README: "The worker retries older failures automatically"). The tool and
  the calendar may stop.
* `RawLog`, `PollJournal`, `ChangeTracker`, `HealthMonitor`, `StaticGtfs` and `SnapshotPublication` make
  no liveness claim: nothing in them is promised that an environment may not prevent.

## 4. Proofs

TLAPS proves the following for all values of the constants under the assumptions named in the
modules, which give the constants their types; besides that the scheduler needs a finite set of feeds
with positive intervals, and maintenance at least one feed and `MinFiles` of at least 2, the values the
code has or accepts. Every invariant was first checked by TLC on the instance of the module's run. A
component's module ends with its properties and its types (`TypeOK`); its proof module begins with the
rest of the inductive invariant (`IInv`, a conjunction of named parts), proves that it is inductive, one
step per action, and takes the properties from it. Three proof modules treat two components each:
`Ingestion_proofs`, on what is kept of a response, `RawLog` and `ChangeTracker`; `Reports_proofs`, on what
the collector says of itself, `PollJournal` and `HealthMonitor`; `MaintenanceTasks_proofs`, on the tasks
of the daily pass beside one date's archive, `StaticGtfs` and `BackupBacklog`. This is why the second of
each pair has names of its own for `Init`, `Next`, `Spec` and `IInv` (`TrackerInit` and `TrackerInv`,
`MonitorInit` and `MonitorInv`, `BacklogInit` and `BacklogInv`, and so on). The two components of a module
share no variable and no theorem.

*Spool.* `IInv` adds to the properties what the worker's memory says of the disk: every marker that
recovery has passed over has blocked its partition (`RecoveryInv`); the plan stays clear of
partitions with an old marker and is still in the spool (`PlanInv`); how far the commit in hand has
come (`HandInv`); a flush without an error owes no cleanup (`CleanInv`). Without `PlanInv`
exactly-once is not inductive: it holds because a leftover source is always covered by a marker
whose partition the snapshot skips. From it follow `NothingLost`, `ExactlyOnce`, `Recoverable`,
`DeleteOnlyCommitted`, `CleanFlushIsClean`, and that every step is a step of `ParquetSink` or a
stutter (`SpoolImplementsSink`).

*Scheduler.* Every deadline is a request or a counted miss (`DeadlinesAccounted`, which needs the
arithmetic of the coalesced count for any interval); no feed has two requests in progress
(`NoOverlap`). For the way from the executor to the processor, `IInv` says which of the lists between
them may hold something in which phase of the shutdown (`PhaseInv`); that a feed has at most one pending
result, the one its schedule names, that no item is in two places, and that what was drained is older
than what is pending (`PendingInv`); and that the items a feed holds are exactly the polls between the
last one handled and the active one, at most two (`HeldInv`). `ReportedOnceInOrder` is not inductive
without them: the next poll to be handled is the right one only because the held polls are an interval
and the processor takes the smallest. The proof restates the per-feed conjuncts as one relation on
values (`Line`) and shows how each operation moves it: a miss, a finished request, a submission, a
handled item; then each of the 19 actions is one of those or moves items between lists
(`StepFeed`, `PutKeeps`, `GetKeeps`, `DrainKeeps`, `ProcessKeeps`, `DrainedKeeps`). From it follow
`ReportedOnceInOrder`, `BacklogBounded` (distinct feeds, counted by an injection into `Feeds`) and
`DrainedAtExit`. The sum of missed deadlines is a library fold; as a feed holds two items at most, it
is evaluated without induction (`CarriedByNone`, `CarriedByOne`, `CarriedByTwo`).

*Pipeline.* `IInv` has three parts that do not depend on each other beyond types: the selection is
exactly what the tracker's memory lacks, so memory plus selection is the snapshot (`SelectionInv`);
as long as a membership is known, the last record is that of the poll before (`PresenceInv`); what
counts as archived is readable, and no raw log of a later date exists (`RawInv`). From it follow
`TrackerBacked`, `StagedRowsReconstruct`, `PresenceReplayable`, `DeltaFollowsPoll`,
`TornTailsMarked` and `AuxiliaryArchived`. What the journal claims needs three more: how far a poll has
come and what kind of response gets there (`OrderInv`); that `presence_ok`, `spool_ok` and the emitted
rows say what is on disk from the step that sets them (`FlagsInv`); that behind the fallback a response
is reconstructible unless two things went wrong and `raw_ok` is false, and what an event claims stays
true (`EvidenceInv`). From these follow `JournalBacked`, `OneFaultLosesNothing` and `NoSilentLoss`,
which are about several calls of one poll and no single step.

*Maintenance.* `IInv` ties the two processes and the five transactions together: a segment that is
both spooled and in a file is in the part of the open commit, and no compaction is open meanwhile
(`CommitInv`); before the receipt, everything is on the disk (`DiskInv`); an open transaction has its
output or all of its sources and nothing else (`TransactionInv`); a complete manifest covers the
date, and as long as what it lists is there nothing else is (`ManifestInv`, with what the loops have
established so far in `BuildInv` and `BackupInv`); the receipt matches manifest and remote and
accounts for the disk (`ReceiptInv`); an eviction in progress follows its plan (`EvictionInv`).
`ManifestInv` is what makes reusing an old manifest safe: compaction after it always replaces a
listed file. From `IInv` follow `NothingLost`, `RowsReadOnce`, `TransactionsResumable`,
`EvictionResumable`, `ReceiptMatches`, and that every step is a step of `EvidenceArchive` or a
stutter (`MaintenanceImplementsArchive`).

*Raw log.* The file is whole records with at most one torn piece behind them, and that only while the
log is suspect or under repair; a checkpoint lies between records (`ShapeInv`). What was acknowledged is
durable (`AckInv`); what a repair is about to cut off is what it copied (`TailInv`); offset, limit and
checkpoint of the exporter are in order and even, unless a power loss outran the checkpoint
(`ExporterInv`). The shape makes every scan read to the last whole record from wherever it starts, which
is the lemma that all three properties need: `AckedReadable`, `TailsPreserved`, `ExporterHoldsCommitted`.

*Change tracker.* What a process remembers of a date is the row staged last for it, value and instant
(`MemoryInv`); the converse fails at a restart and at a sweep, which is why a row may be written twice
but never withheld wrongly. `NoDrift` needs besides that what `filter` does with a poll of any length,
where a row is compared with those before it. The library defines the fold in `Filter` by recursion; it
is unfolded to one row at a time (`FilterUnfolds`), and the induction over the rows is by least
counterexample, from the library's theorem that `<` is well-founded on the naturals (`PlaceInduction`):
after the first n rows, no row that is the last of its key among them would be written again
(`FilterSettles`), because a row that was just taken does not differ from itself and later rows of other
keys leave it alone. What was observed last per key is such a row, and what it would be compared with is
what is staged. So `NoDrift` holds for all fields, tolerances, heartbeats and clocks, set back or not. The
same unfolding proves what `_expire_heartbeat_entries` says in its comment, that the sweep never
changes which rows are written (`SweepIsUnseen`): an entry past its heartbeat is written whatever it says.

*Poll journal.* The argument of the raw log with lines of three pieces: `ShapeInv` (nothing is appended but
behind a whole line, and the repair is never refused) and `AckInv` give `JournalSound`. Raw log and journal are
proved for any number of records, failures and deaths.

*Publication.* A request that passed the look at the stored snapshot carries nothing older than that
snapshot, and a success is about one that was stored (`BucketInv`); whatever was served was in the
bucket, and the poll in hand was served nothing older than the page shows (`PageInv`). From these follow
`NeverOlder`, `PollingOnce` and `HealthyIsPublished`, for any number of exporters.

*Health.* The monitor never believes an answer to be newer than it is; of a feed it is not `unaware` of it
knows exactly what happened, as a result cut off and a restart that finds something unsaved make it
unaware (`KnowledgeInv`); a healthy status was true when it was written, and names instants that
the clock has passed (`StatusInv`). `HealthyIsTrue` follows, for any feeds, signals, intervals and limits,
however often writes raise, results are cut off and the process dies.

*Static archive.* No archive is ever replaced: a path that is a digest holds that version, and the
download in hand is where its event will say it is (`FilesInv`); with `VersionsKept` itself this is
inductive, as `Destination` is a new name or that of an event with the same content. An instant has one
event at most, and the event of this pass is yet to come until its append (`HistoryInv`). For
`OneTearLosesOne` the tears pay in advance: an unended line has a tear to spare, for the event that will
be spoiled by landing on it, and so has a check between such an append and its return; the line that is
spoiled with it records no check that returned (`TearInv`). `TimelineAgrees` needs only `HistoryInv`: if
the segment that covers an instant showed another version than the last event before it, the first
boundary that differs from the segment's start would have a predecessor that does not, and so would have
started a segment of its own (`CoveringShows`). The latest and the earliest event of a range exist
because instants are bounded numbers (`LatestExists`, `EarliestExists`, from the library's theorem
that `<` is well-founded on the naturals).

*Backup backlog.* The migration tool copies and confirms only dates it has inventoried (`DraftInv`), and a
date whose copy at the head looks as inventoried is among those held since (`RemoteInv`), which every
upload, the worker's or the tool's, whole or in part, preserves. So a date that is confirmed had been held
when the tool looked: `LegacyClaimsHeld`. For `ReceiptsPinned`: a date is uploaded and verified once its
evidence is whole, so that no commit changes it under way (`WorklistInv`), and a date with a receipt is
never on the worklist again, so that no build rewrites its manifest (`PinnedInv`); the tool touches
neither dates nor receipts, and its late uploads only make a verification fail. Both hold for any number of dates,
sizes, troubles and runs of the tool.

`IInv` (`TrackerInv`, `MonitorInv`, `BacklogInv`) and its parts, `TypeOK`, `Recoverable`, `DeleteOnlyCommitted`, `NoOverlap`, `TrackerBacked`,
`TornTailsMarked` and `ReceiptMatches` are proved and not checked by a run as well.

Model-checked only: liveness, including that of `ImplementsSink` and `ImplementsArchive`, as the prover has
no rules for fairness and ENABLED here. Every safety property of a passing run is proved.

## 5. What is left out

* Spool and scheduler: reordering of metadata at a power loss (every rename, unlink and fsync is taken
  to be in order); a part that exists with a wrong row count (treated as absent); the unforced flush of
  `poll_once`; an exception outside the `try` blocks of `flush`; temporary files left by a crash (except
  `litter` above); `executor.submit` raising.
* Pipeline: the tail repair of the presence log; source timestamps and stream ids in presence records;
  run metadata; VehiclePositions and Alerts, whose path through `process_result` is a part of that of
  TripUpdates; an exception of `record_failure`. The pipeline compares values for equality and may
  forget any trip at any time; `ChangeTracker` has the numbers.
* Raw log and journal: `raw_fsync = False` (no checkpoint is ever written then); a failing disk that
  changes bytes once written; several files at once (`CollectorPipeline` has two dates).
* Maintenance: in `ArchiveMaintenance` other dates (a date does not touch the files of another one,
  except static metadata artifacts in a manifest), quality statistics of the journal, static metadata
  artifacts, the manifest's timestamp (a rebuilt manifest with the same artifacts counts as the same
  one), free-space accounting, health pings, and manual rebuilds, which are not to be run beside
  maintenance; in `BackupBacklog` compaction and
  retention, the maintenance status and its count of stale dates, and the static archive's own files in the
  repository. There an inventory looks at one date in one moment, and what it writes down of an ordinary file
  besides its size is not compared with anything, as in the code.
* Health: messages and metrics; the reasons that look at one response, the disk, the scheduler or the
  worker are each one Boolean.
* Static archive: the contents of the ZIP, `applicable_version` and its confidence levels, leftover
  downloads.
* Publication: authorisation, media types and sizes; the encoding of a snapshot and its projection from
  a payload; what the page draws; an HTTP cache between worker and page (`public, max-age=10`,
  `frontend/worker/index.ts:68`). Exporter and worker read one clock.
* Whole components: the spool codec, feed parsing and the field policy convert data and have no control
  state; the configuration is read once; `quality_diagnostics.py`, `diagnostics.py`,
  `check_threshold.py` and `verify_backup.py` read files and report; `rebuild_parquet.py` is run by hand
  with maintenance stopped, and its install is two renames.

## 6. Plan

Every safety property of a passing run is proved. What is left:

1. The install step of `rebuild_parquet.py` (two renames of a partition): a rebuild killed between them
   leaves the date without a partition until somebody looks. It is listed as a hazard without a property.
2. The migration tool's decision that a date is legacy, which the code takes from one look and for good
   (section 3): a hazard without a property.
3. Liveness stays with TLC.
