--------------------------- MODULE ArchiveMaintenance ---------------------------
(***************************************************************************)
(* The life of one completed UTC date after ingestion.                     *)
(*                                                                         *)
(*   bkk_collector/maintenance.py              the worker's loop           *)
(*   bkk_collector/storage/parquet_compact.py  compaction                  *)
(*   bkk_collector/archive/manifests.py        the daily manifest          *)
(*   bkk_collector/archive/backup.py           backup and receipt          *)
(*   bkk_collector/archive/retention.py        eviction of the local copy  *)
(*                                                                         *)
(* The maintenance process repeats: compact every partition of the date,   *)
(* load or build its manifest, upload what the manifest lists, verify it   *)
(* at a fixed revision, publish a receipt, and, once the date is old       *)
(* enough, evict the raw logs and the Parquet parts that the receipt       *)
(* covers.  Meanwhile the commit worker of the collector process may still *)
(* turn old spool segments of the date into parts.  The two processes      *)
(* share files only.  Any call may raise, either process may die, and an   *)
(* upload may report success although the remote does not hold the file.   *)
(*                                                                         *)
(* A file is identified with its content, since parts, compacted parts and *)
(* receipts are named or authenticated by digests; the manifest with the   *)
(* set of artifacts it lists.                                              *)
(***************************************************************************)
EXTENDS Integers, FiniteSets, FiniteSetsExt

CONSTANTS
  Feeds,        \* FEED_NAMES, as numbers in their order
  Segments,     \* the spool segments staged for the date
  FeedOf,       \* the feed of each segment
  Journaled,    \* segments whose rows the poll journal counts as emitted
  MinFiles,     \* COMPACTION_MIN_FILES
  MaxFaults,    \* bound on calls that raise and uploads that are lost
  MaxCrashes    \* bound on deaths of either process

ASSUME MaintenanceAssumption ==
  /\ Feeds \subseteq Nat /\ Feeds # {}
  /\ IsFiniteSet(Segments)
  /\ FeedOf \in [Segments -> Feeds]
  /\ Journaled \subseteq Segments
  /\ MinFiles \in Nat \ {0, 1}
  /\ MaxFaults \in Nat
  /\ MaxCrashes \in Nat

VARIABLES
  \* shared with the collector process
  spool,        \* segments in spool/<feed>/date=<date>
  commit,       \* per feed, the sources of the open spool commit, if any
  disk,         \* the raw logs and the Parquet files of the date
  litter,       \* feeds whose Parquet directory holds a stray temporary file
  \* durable state of maintenance
  txn,          \* per feed, the sources in .compaction-transaction.json
  manifest,     \* the daily manifest: is it complete, what does it list
  receipt,      \* backup_receipts/date=<date>.json
  intent,       \* per kind, the planned files of prune-<kind>-<date>.json
  \* the dataset repository
  head,         \* its newest revision
  \* memory of the maintenance process
  pc,           \* its control point
  feeds,        \* feeds that the loop in progress has not handled yet
  sure,         \* no completeness error so far
  chosen,       \* the artifacts being backed up
  draft,        \* the receipt being published
  kind,         \* the kind being pruned
  job,          \* the files still to upload or to unlink
  \* environment and bounds
  due,          \* kinds for which the date is older than the retention time
  faults,
  crashes

collector == <<spool, commit>>
archive   == <<disk, litter, txn, manifest, receipt, intent>>
memory    == <<feeds, sure, chosen, draft, kind, job>>
bounds    == <<due, faults, crashes>>
vars      == <<collector, archive, head, pc, memory, bounds>>

Artifacts ==
  [feed : Feeds, type : {"raw"}, rows : {{}}]
    \cup [feed : Feeds, type : {"part", "compacted"}, rows : SUBSET Segments]
Kinds == {"raw", "parquet"}
Receipts == [artifacts : SUBSET Artifacts, revision : SUBSET Artifacts]
None == [artifacts |-> {}, revision |-> {}]     \* no receipt; one that lists nothing
                                                \* does not count as one
Manifests == [complete : BOOLEAN, artifacts : SUBSET Artifacts]
Heads == [artifacts : SUBSET Artifacts,
          manifest : SUBSET Artifacts,
          receipt : Receipts]

TypeOK ==
  /\ spool \subseteq Segments
  /\ commit \in [Feeds -> SUBSET Segments]
  /\ disk \subseteq Artifacts
  /\ litter \subseteq Feeds
  /\ txn \in [Feeds -> SUBSET Artifacts]
  /\ manifest \in Manifests
  /\ receipt \in Receipts
  /\ intent \in [Kinds -> SUBSET Artifacts]
  /\ head \in Heads
  /\ pc \in {"down", "idle", "compact", "merge", "drop", "backlog", "count",
             "pending", "describe", "upload", "verify", "publish", "install",
             "prune", "unlink"}
  /\ feeds \subseteq Feeds
  /\ sure \in BOOLEAN
  /\ chosen \subseteq Artifacts
  /\ draft \in Receipts
  /\ kind \in Kinds
  /\ job \subseteq Artifacts
  /\ due \subseteq Kinds
  /\ faults \in 0..MaxFaults
  /\ crashes \in 0..MaxCrashes

Raw(f) == [feed |-> f, type |-> "raw", rows |-> {}]
Part(f, S) == [feed |-> f, type |-> "part", rows |-> S]
Merged(f, parts) ==
  [feed |-> f, type |-> "compacted", rows |-> UNION {x.rows : x \in parts}]

KindOf(x) == IF x.type = "raw" THEN "raw" ELSE "parquet"
OfKind(files, k) == {x \in files : KindOf(x) = k}
ParquetOf(f) == {x \in disk : x.feed = f /\ x.type # "raw"}
SpoolOf(f) == {s \in spool : FeedOf[s] = f}
RowCount(files) == MapThenSumSet(LAMBDA x : Cardinality(x.rows), files)

\* Segments or a commit marker are left in the feed's spool partition.
SpoolBusy(f) == SpoolOf(f) # {} \/ commit[f] # {}

\* The feed at hand in a loop over FEED_NAMES.
Current(f) == f \in feeds /\ \A g \in feeds : f <= g

\* Ingestion of the date is over (BACKUP_DATE_GRACE_MINUTES): its rows are in
\* the spool, and each feed has its raw log.
Init ==
  /\ spool = Segments
  /\ commit = [f \in Feeds |-> {}]
  /\ disk = {Raw(f) : f \in Feeds}
  /\ litter = {}
  /\ txn = [f \in Feeds |-> {}]
  /\ manifest = [complete |-> FALSE, artifacts |-> {}]
  /\ receipt = None
  /\ intent = [k \in Kinds |-> {}]
  /\ head = [artifacts |-> {}, manifest |-> {}, receipt |-> None]
  /\ pc = "idle"
  /\ feeds = {} /\ sure = FALSE /\ chosen = {} /\ draft = None
  /\ kind = "raw" /\ job = {}
  /\ due = {} /\ faults = 0 /\ crashes = 0

Fault == faults < MaxFaults /\ faults' = faults + 1
Goto(label) == pc' = label

--------------------------------------------------------------------------------
(* The commit worker of the collector process (in detail: SpoolCommit) *)

BeginCommit(f) ==
  /\ commit[f] = {}
  /\ \E S \in SUBSET SpoolOf(f) : S # {} /\ commit' = [commit EXCEPT ![f] = S]
  /\ UNCHANGED <<spool, archive, head, pc, memory, bounds>>

WritePart(f) ==
  /\ commit[f] # {} /\ commit[f] \subseteq spool
  /\ Part(f, commit[f]) \notin disk
  /\ disk' = disk \cup {Part(f, commit[f])}
  /\ UNCHANGED <<collector, litter, txn, manifest, receipt, intent, head, pc, memory, bounds>>

UnlinkSegment(f) ==
  /\ Part(f, commit[f]) \in disk
  /\ \E s \in commit[f] \cap spool : spool' = spool \ {s}
  /\ UNCHANGED <<commit, archive, head, pc, memory, bounds>>

EndCommit(f) ==
  /\ commit[f] # {} /\ commit[f] \cap spool = {}
  /\ Part(f, commit[f]) \in disk
  /\ commit' = [commit EXCEPT ![f] = {}]
  /\ UNCHANGED <<spool, archive, head, pc, memory, bounds>>

\* The process dies while it writes the part: the temporary file stays, and the
\* next recovery discards the intent.
CommitCrash(f) ==
  /\ crashes < MaxCrashes
  /\ commit[f] # {} /\ Part(f, commit[f]) \notin disk
  /\ litter' = litter \cup {f}
  /\ commit' = [commit EXCEPT ![f] = {}]
  /\ crashes' = crashes + 1
  /\ UNCHANGED <<spool, disk, txn, manifest, receipt, intent, head, pc, memory, due, faults>>

--------------------------------------------------------------------------------
(* compact_pending_dates, compact_partition *)

\* The date is pending until it has a receipt.  Both this test of the clock and
\* that of maintain_backups are made on their own: either pass may find that the
\* backup hour or its retry time has come when the other does not.
BeginCompaction ==
  /\ pc = "idle" /\ receipt = None
  /\ Goto("compact")
  /\ feeds' = Feeds
  /\ UNCHANGED <<collector, archive, head, sure, chosen, draft, kind, job, bounds>>

SkipCompaction ==
  /\ pc = "idle"
  /\ Goto("backlog")
  /\ UNCHANGED <<collector, archive, head, memory, bounds>>

Output(f) == Merged(f, txn[f])

\* A transaction with missing sources and no output is refused.
Unresumable(f) == txn[f] # {} /\ Output(f) \notin disk /\ ~(txn[f] \subseteq disk)

\* Nothing to do for this partition, now or ever.
LeavePartition(f) ==
  /\ pc = "compact" /\ Current(f)
  /\ \/ SpoolBusy(f)
     \/ txn[f] = {} /\ Cardinality(ParquetOf(f)) < MinFiles
     \/ Unresumable(f)
  /\ feeds' = feeds \ {f}
  /\ UNCHANGED <<collector, archive, head, pc, sure, chosen, draft, kind, job, bounds>>

\* Mutant: does not look at the spool.
OpenTransaction_WhileCommitting(f) ==
  /\ pc = "compact" /\ Current(f)
  /\ txn[f] = {} /\ Cardinality(ParquetOf(f)) >= MinFiles
  /\ txn' = [txn EXCEPT ![f] = ParquetOf(f)]
  /\ Goto("merge")
  /\ UNCHANGED <<collector, disk, litter, manifest, receipt, intent, head, memory, bounds>>

OpenTransaction(f) ==
  /\ pc = "compact" /\ Current(f) /\ ~SpoolBusy(f)
  /\ txn[f] = {} /\ Cardinality(ParquetOf(f)) >= MinFiles
  /\ txn' = [txn EXCEPT ![f] = ParquetOf(f)]
  /\ Goto("merge")
  /\ UNCHANGED <<collector, disk, litter, manifest, receipt, intent, head, memory, bounds>>

\* Mutant: takes the marker for proof of the output.
ResumeTransaction_Unchecked(f) ==
  /\ pc = "compact" /\ Current(f) /\ ~SpoolBusy(f)
  /\ txn[f] # {}
  /\ Goto("drop")
  /\ UNCHANGED <<collector, archive, head, memory, bounds>>

\* What an earlier pass left open: clean up behind a valid output, or merge again.
ResumeTransaction(f) ==
  /\ pc = "compact" /\ Current(f) /\ ~SpoolBusy(f)
  /\ txn[f] # {} /\ ~Unresumable(f)
  /\ Goto(IF Output(f) \in disk THEN "drop" ELSE "merge")
  /\ UNCHANGED <<collector, archive, head, memory, bounds>>

\* The merged file is written beside its sources and renamed into place.
Merge(f) ==
  /\ pc = "merge" /\ Current(f)
  /\ disk' = disk \cup {Output(f)}
  /\ Goto("drop")
  /\ UNCHANGED <<collector, litter, txn, manifest, receipt, intent, head, memory, bounds>>

DropSource(f) ==
  /\ pc = "drop" /\ Current(f)
  /\ \E x \in (txn[f] \cap disk) \ {Output(f)} : disk' = disk \ {x}
  /\ UNCHANGED <<collector, litter, txn, manifest, receipt, intent, head, pc, memory, bounds>>

\* Mutant: forgets the transaction before its sources are gone.
CloseTransaction_Early(f) ==
  /\ pc = "drop" /\ Current(f)
  /\ txn' = [txn EXCEPT ![f] = {}]
  /\ feeds' = feeds \ {f}
  /\ Goto("compact")
  /\ UNCHANGED <<collector, disk, litter, manifest, receipt, intent, head, sure, chosen, draft, kind, job, bounds>>

CloseTransaction(f) ==
  /\ pc = "drop" /\ Current(f)
  /\ txn[f] \cap disk \subseteq {Output(f)}
  /\ txn' = [txn EXCEPT ![f] = {}]
  /\ feeds' = feeds \ {f}
  /\ Goto("compact")
  /\ UNCHANGED <<collector, disk, litter, manifest, receipt, intent, head, sure, chosen, draft, kind, job, bounds>>

\* compact_pending_dates reports the exception and goes on with the next feed;
\* the finally clause has removed the temporary file.
CompactionFails(f) ==
  /\ pc \in {"merge", "drop"} /\ Current(f) /\ Fault
  /\ feeds' = feeds \ {f}
  /\ Goto("compact")
  /\ UNCHANGED <<collector, archive, head, sure, chosen, draft, kind, job, due, crashes>>

EndCompaction ==
  /\ pc = "compact" /\ feeds = {}
  /\ Goto("backlog")
  /\ UNCHANGED <<collector, archive, head, memory, bounds>>

--------------------------------------------------------------------------------
(* _load_or_build_manifest, build_daily_manifest *)

\* Back to the loop, with nothing left in memory.
Rest ==
  /\ Goto("idle")
  /\ feeds' = {} /\ sure' = FALSE /\ chosen' = {} /\ draft' = None
  /\ kind' = "raw" /\ job' = {}

SkipBackups ==
  /\ pc = "backlog"
  /\ Rest
  /\ UNCHANGED <<collector, archive, head, bounds>>

\* Hand over to backup_date, which compares with the remote first.
BackUp(artifacts) ==
  /\ chosen' = artifacts
  /\ job' = artifacts \ head.artifacts
  /\ Goto("describe")

\* A complete manifest whose artifacts are all there unchanged is used again.
ReuseManifest ==
  /\ pc = "backlog" /\ receipt = None
  /\ manifest.complete /\ manifest.artifacts \subseteq disk
  /\ BackUp(manifest.artifacts)
  /\ UNCHANGED <<collector, archive, head, feeds, sure, draft, kind, bounds>>

BeginManifest ==
  /\ pc = "backlog" /\ receipt = None
  /\ ~(manifest.complete /\ manifest.artifacts \subseteq disk)
  /\ Goto("count")
  /\ feeds' = Feeds /\ sure' = TRUE
  /\ UNCHANGED <<collector, archive, head, chosen, draft, kind, job, bounds>>

\* A feed whose journal emitted no row gets an empty Parquet marker.
Emitted(f) == {s \in Journaled : FeedOf[s] = f}
WithMarker(f) ==
  IF ParquetOf(f) = {} /\ Emitted(f) = {} THEN {Part(f, {})} ELSE ParquetOf(f)

CountRows(f) ==
  /\ pc = "count" /\ Current(f)
  /\ disk' = disk \cup WithMarker(f)
  /\ sure' = (/\ sure /\ Raw(f) \in disk
              /\ WithMarker(f) # {}
              /\ RowCount(WithMarker(f)) >= Cardinality(Emitted(f)))
  /\ Goto("pending")
  /\ UNCHANGED <<collector, litter, txn, manifest, receipt, intent, head, feeds, chosen, draft, kind, job, bounds>>

\* Mutant: trusts the row count alone.
CheckPending_Ignored(f) ==
  /\ pc = "pending" /\ Current(f)
  /\ feeds' = feeds \ {f}
  /\ Goto("count")
  /\ UNCHANGED <<collector, archive, head, sure, chosen, draft, kind, job, bounds>>

CheckPending(f) ==
  /\ pc = "pending" /\ Current(f)
  /\ sure' = (sure /\ SpoolOf(f) = {})
  /\ feeds' = feeds \ {f}
  /\ Goto("count")
  /\ UNCHANGED <<collector, archive, head, chosen, draft, kind, job, bounds>>

\* Only now are the artifacts listed; an incomplete date waits for another pass.
WriteManifest ==
  /\ pc = "count" /\ feeds = {}
  /\ manifest' = [complete |-> sure, artifacts |-> disk]
  /\ IF sure
     THEN BackUp(disk) /\ UNCHANGED <<feeds, sure, draft, kind>>
     ELSE Rest
  /\ UNCHANGED <<collector, disk, litter, txn, receipt, intent, head, bounds>>

--------------------------------------------------------------------------------
(* backup_date *)

\* The manifest's path sorts before those of the data files.
UploadManifest ==
  /\ pc = "describe"
  /\ head' = [head EXCEPT !.manifest = chosen]
  /\ Goto("upload")
  /\ UNCHANGED <<collector, archive, memory, bounds>>

UploadFile ==
  /\ pc = "upload"
  /\ \E x \in job :
       /\ head' = [head EXCEPT !.artifacts = @ \cup {x}]
       /\ job' = job \ {x}
  /\ UNCHANGED <<collector, archive, pc, feeds, sure, chosen, draft, kind, bounds>>

\* The upload returns, but the remote does not hold this content.
UploadLost ==
  /\ pc = "upload" /\ Fault
  /\ \E x \in job : job' = job \ {x}
  /\ UNCHANGED <<collector, archive, head, pc, feeds, sure, chosen, draft, kind, due, crashes>>

EndUpload ==
  /\ pc = "upload" /\ job = {}
  /\ Goto("verify")
  /\ UNCHANGED <<collector, archive, head, memory, bounds>>

\* remote_revision pins what the repository holds now; every artifact is looked
\* up at that revision, and every local file is read once more.
Verified == chosen \subseteq head.artifacts /\ head.manifest = chosen /\ chosen \subseteq disk

VerifyRemote ==
  /\ pc = "verify" /\ Verified
  /\ draft' = [artifacts |-> chosen, revision |-> head.artifacts]
  /\ Goto("publish")
  /\ UNCHANGED <<collector, archive, head, feeds, sure, chosen, kind, job, bounds>>

UploadReceipt ==
  /\ pc = "publish"
  /\ head' = [head EXCEPT !.receipt = draft]
  /\ Goto("install")
  /\ UNCHANGED <<collector, archive, memory, bounds>>

ReceiptLost ==
  /\ pc = "publish" /\ Fault
  /\ Goto("install")
  /\ UNCHANGED <<collector, archive, head, memory, due, crashes>>

InstallReceipt ==
  /\ pc = "install" /\ head.receipt = draft
  /\ receipt' = draft
  /\ Goto("prune")
  /\ feeds' = {} /\ sure' = FALSE /\ chosen' = {} /\ draft' = None /\ kind' = "raw" /\ job' = {}
  /\ UNCHANGED <<collector, disk, litter, txn, manifest, intent, head, bounds>>

\* A verification found the remote wanting; the date remains pending.
RefuseBackup ==
  /\ \/ pc = "verify" /\ ~Verified
     \/ pc = "install" /\ head.receipt # draft
  /\ Rest
  /\ UNCHANGED <<collector, archive, head, bounds>>

\* Any call raises.  If it was an upload, it may have taken effect before.
BackupFails ==
  /\ pc \in {"count", "describe", "upload", "verify", "publish", "install"} /\ Fault
  /\ Rest
  /\ UNCHANGED <<collector, archive, head, due, crashes>>

--------------------------------------------------------------------------------
(* prune_confirmed, _prune_date *)

\* A date that is already confirmed goes straight to retention.
BeginPruning ==
  /\ pc = "backlog" /\ receipt # None
  /\ Goto("prune")
  /\ UNCHANGED <<collector, archive, head, memory, bounds>>

\* Raw logs are pruned first, then Parquet, then the pass is over.
NextKind ==
  IF kind = "raw"
  THEN /\ Goto("prune") /\ kind' = "parquet" /\ job' = {}
       /\ UNCHANGED <<feeds, sure, chosen, draft>>
  ELSE Rest

Expected(k) == OfKind(receipt.artifacts, k)

\* _inventory: no spool work, and nothing but Parquet files.
InventoryClean(k) ==
  /\ \A f \in Feeds : ~SpoolBusy(f)
  /\ k = "parquet" => litter = {} /\ \A f \in Feeds : txn[f] = {}

ReceiptAuthentic ==
  manifest = [complete |-> TRUE, artifacts |-> receipt.artifacts]

\* Files missing here were evicted by an earlier pass with the same plan.
Accounted(k) ==
  /\ OfKind(disk, k) \subseteq Expected(k)
  /\ Expected(k) \subseteq disk \/ intent[k] = Expected(k)

RemoteConfirms(k) == head.receipt = receipt /\ Expected(k) \subseteq receipt.revision

MayPrune(k) ==
  /\ k \in due /\ OfKind(disk, k) # {}
  /\ InventoryClean(k) /\ ReceiptAuthentic /\ Accounted(k) /\ RemoteConfirms(k)

\* Mutant: the plan is not written down before the first unlink.
AuthorizePrune_Unplanned ==
  /\ pc = "prune" /\ MayPrune(kind)
  /\ job' = OfKind(disk, kind)
  /\ Goto("unlink")
  /\ UNCHANGED <<collector, archive, head, feeds, sure, chosen, draft, kind, bounds>>

\* Every check is repeated after the network calls, before the intent is written.
AuthorizePrune ==
  /\ pc = "prune" /\ MayPrune(kind)
  /\ intent' = [intent EXCEPT ![kind] = Expected(kind)]
  /\ job' = OfKind(disk, kind)
  /\ Goto("unlink")
  /\ UNCHANGED <<collector, disk, litter, txn, manifest, receipt, head, feeds, sure, chosen, draft, kind, bounds>>

RefusePrune ==
  /\ pc = "prune" /\ ~MayPrune(kind)
  /\ NextKind
  /\ UNCHANGED <<collector, archive, head, bounds>>

UnlinkFile ==
  /\ pc = "unlink"
  /\ \E x \in job : disk' = disk \ {x} /\ job' = job \ {x}
  /\ UNCHANGED <<collector, litter, txn, manifest, receipt, intent, head, pc, feeds, sure, chosen, draft, kind, bounds>>

EndPrune ==
  /\ pc = "unlink" /\ job = {}
  /\ NextKind
  /\ UNCHANGED <<collector, archive, head, bounds>>

PruneFails ==
  /\ pc \in {"prune", "unlink"} /\ Fault
  /\ NextKind
  /\ UNCHANGED <<collector, archive, head, due, crashes>>

--------------------------------------------------------------------------------
(* The environment *)

\* Another day passes the retention limit of one kind.
Age(k) ==
  /\ k \notin due
  /\ due' = due \cup {k}
  /\ UNCHANGED <<collector, archive, head, pc, memory, faults, crashes>>

\* Death of the maintenance process; a merge in progress leaves its temporary.
Crash ==
  /\ pc # "down" /\ crashes < MaxCrashes
  /\ Goto("down")
  /\ feeds' = {} /\ sure' = FALSE /\ chosen' = {} /\ draft' = None /\ kind' = "raw" /\ job' = {}
  /\ litter' = IF pc = "merge" THEN litter \cup {f \in Feeds : Current(f)} ELSE litter
  /\ crashes' = crashes + 1
  /\ UNCHANGED <<collector, disk, txn, manifest, receipt, intent, head, due, faults>>

Restart ==
  /\ pc = "down"
  /\ Goto("idle")
  /\ UNCHANGED <<collector, archive, head, memory, bounds>>

CommitStep(f) == BeginCommit(f) \/ WritePart(f) \/ UnlinkSegment(f) \/ EndCommit(f)

CompactionStep(f) ==
  \/ LeavePartition(f) \/ OpenTransaction(f) \/ ResumeTransaction(f)
  \/ Merge(f) \/ DropSource(f) \/ CloseTransaction(f)

MaintenanceStep ==
  \/ BeginCompaction \/ SkipCompaction
  \/ \E f \in Feeds : CompactionStep(f)
  \/ EndCompaction
  \/ SkipBackups \/ ReuseManifest \/ BeginManifest
  \/ \E f \in Feeds : CountRows(f) \/ CheckPending(f)
  \/ WriteManifest
  \/ UploadManifest \/ UploadFile \/ EndUpload \/ VerifyRemote
  \/ UploadReceipt \/ InstallReceipt \/ RefuseBackup
  \/ BeginPruning \/ AuthorizePrune \/ RefusePrune \/ UnlinkFile \/ EndPrune
  \/ Restart

FailureStep ==
  \/ \E f \in Feeds : CommitCrash(f) \/ CompactionFails(f)
  \/ UploadLost \/ ReceiptLost \/ BackupFails \/ PruneFails \/ Crash

Next ==
  \/ \E f \in Feeds : CommitStep(f)
  \/ MaintenanceStep
  \/ FailureStep
  \/ \E k \in Kinds : Age(k)

Safety == Init /\ [][Next]_vars

\* Both processes keep running and are restarted; dates grow old; and the clock
\* does not always fall between the two tests of a pass.
Fairness ==
  /\ \A f \in Feeds : WF_vars(CommitStep(f))
  /\ WF_vars(MaintenanceStep)
  /\ SF_vars(ReuseManifest \/ BeginManifest)
  /\ SF_vars(BeginPruning)
  /\ \A k \in Kinds : WF_vars(Age(k))

Spec == Safety /\ Fairness

--------------------------------------------------------------------------------
(* Properties *)

Content(x) ==
  IF x.type = "raw" THEN {<<"raw", x.feed>>} ELSE {<<"rows", s>> : s \in x.rows}
ContentOf(files) == UNION {Content(x) : x \in files}

Evidence == {<<"raw", f>> : f \in Feeds} \cup {<<"rows", s>> : s \in Segments}
Local == ContentOf(disk) \cup {<<"rows", s>> : s \in spool}
Pinned ==
  IF receipt = None THEN {} ELSE ContentOf(receipt.artifacts \cap receipt.revision)

Promise == INSTANCE EvidenceArchive WITH local <- Local, pinned <- Pinned

\* Raw logs and rows leave the disk only once a receipt pins all of the date's
\* evidence at a remote revision, the receipt comes once, and it comes in the
\* end (README "Before deleting any file in a date").
ImplementsArchive == Promise!Spec

\* The same without liveness, and at every intermediate state: nothing is ever
\* missing from the disk that the pinned revision does not hold.
NothingLost == Evidence \subseteq Local \cup Pinned

\* A partition shows a row twice only while its compaction marker is there: two
\* files of a feed without an open transaction have no row in common.
RowsReadOnce ==
  \A f \in Feeds : txn[f] = {} =>
    \A x, y \in ParquetOf(f) : x # y => x.rows \cap y.rows = {}

\* The refusals of an incomplete transaction and of a spool commit whose output
\* is gone are unreachable: compaction can always go on from its marker, and it
\* never takes away a part that recovery of a spool commit looks for.
TransactionsResumable ==
  \A f \in Feeds :
    /\ ~Unresumable(f)
    /\ commit[f] \subseteq spool \/ Part(f, commit[f]) \in disk

\* What remains of a confirmed date is what its receipt lists, up to an unfinished
\* compaction, and what is missing was announced by a matching intent: retention
\* interrupted at any point is resumed and never refuses its own work.
EvictionResumable ==
  receipt # None =>
    \A k \in Kinds : InventoryClean(k) => Accounted(k)

\* An installed receipt is the one in the newest revision, and belongs to the
\* manifest on the disk; otherwise retention would refuse the date for good.
ReceiptMatches ==
  receipt # None => head.receipt = receipt /\ ReceiptAuthentic

\* A confirmed date without debris leaves the disk in the end.
CleanDatesEvicted ==
  (receipt # None /\ litter = {} /\ \A f \in Feeds : txn[f] = {}) ~> disk = {}

\* README "A transaction marker completes cleanup after a crash": a transaction
\* that a crash has left open is closed in the end.
MarkerCompletesCleanup ==
  \A f \in Feeds : (pc = "down" /\ txn[f] # {}) ~> txn[f] = {}
================================================================================
