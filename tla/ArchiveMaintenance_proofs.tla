----------------------- MODULE ArchiveMaintenance_proofs -----------------------
(***************************************************************************)
(* Proofs about ArchiveMaintenance, for any feeds, segments, journal and   *)
(* number of failures and crashes.                                         *)
(***************************************************************************)
EXTENDS ArchiveMaintenance, FiniteSetTheorems, TLAPS

--------------------------------------------------------------------------------
(* The inductive invariant *)

FilesOf(files, f) == {x \in files : x.feed = f /\ x.type # "raw"}
Covers(files) ==
  /\ \A f \in Feeds : Raw(f) \in files
  /\ \A s \in Segments : \E x \in files : s \in x.rows

\* A segment is still spooled or in a file of its feed.  While it is both, the
\* file is that of the open commit; and no compaction is open meanwhile.
CommitInv ==
  \A f \in Feeds :
    /\ \A s \in commit[f] : FeedOf[s] = f
    /\ commit[f] \subseteq spool \/ Part(f, commit[f]) \in disk
    /\ \A x \in ParquetOf(f) : x.rows \cap spool # {} => x = Part(f, commit[f])
    /\ txn[f] # {} => ~SpoolBusy(f)

DiskInv ==
  /\ \A x \in disk : \A s \in x.rows : FeedOf[s] = x.feed
  /\ receipt = None => \A f \in Feeds : Raw(f) \in disk
  /\ receipt = None => \A s \in Segments \ spool : \E x \in disk : s \in x.rows
  /\ receipt # None => spool = {}

\* An open transaction has its output or all of its sources, and nothing else.
TransactionInv ==
  \A f \in Feeds :
    /\ txn[f] # {} =>
         /\ \A x \in txn[f] : x.feed = f /\ x.type # "raw" /\ \A s \in x.rows : FeedOf[s] = f
         /\ ParquetOf(f) \subseteq txn[f] \cup {Output(f)}
         /\ Output(f) \in disk \/ txn[f] \subseteq disk
    /\ pc \in {"merge", "drop"} /\ Current(f) => txn[f] # {}
    /\ pc = "drop" /\ Current(f) => Output(f) \in disk

\* A complete manifest covers the date.  As long as all it lists for a feed is
\* there and no compaction is open, there is nothing else.
ManifestInv ==
  manifest.complete =>
    /\ spool = {}
    /\ Covers(manifest.artifacts)
    /\ \A f \in Feeds :
         /\ FilesOf(manifest.artifacts, f) # {}
         /\ txn[f] = {} /\ FilesOf(manifest.artifacts, f) \subseteq disk
              => FilesOf(manifest.artifacts, f) = ParquetOf(f)

\* What the steps so far of a manifest and of a backup have established.
BuildInv ==
  /\ pc \in {"count", "pending"} /\ sure =>
       \A f \in Feeds \ feeds : SpoolOf(f) = {} /\ ParquetOf(f) # {}
  /\ pc = "pending" /\ sure => \A f \in Feeds : Current(f) => ParquetOf(f) # {}

BackupInv ==
  /\ pc \in {"compact", "merge", "drop", "count", "pending",
             "describe", "upload", "verify", "publish", "install"} => receipt = None
  /\ pc \in {"describe", "upload", "verify", "publish", "install"} =>
       manifest.complete /\ chosen = manifest.artifacts /\ chosen \subseteq disk
  /\ pc \in {"publish", "install"} =>
       draft.artifacts = chosen /\ chosen \subseteq draft.revision

\* After the receipt only retention changes the disk.
ReceiptInv ==
  receipt # None =>
    /\ Covers(receipt.artifacts) /\ receipt.artifacts \subseteq receipt.revision
    /\ head.receipt = receipt /\ ReceiptAuthentic
    /\ \A k \in Kinds : (k = "parquet" => \A f \in Feeds : txn[f] = {}) => Accounted(k)

EvictionInv ==
  /\ pc \in {"prune", "unlink"} => receipt # None
  /\ pc = "unlink" =>
       /\ \A f \in Feeds : ~SpoolBusy(f)
       /\ kind = "parquet" => \A f \in Feeds : txn[f] = {}
       /\ intent[kind] = Expected(kind)
       /\ \A x \in job : KindOf(x) = kind

IInv ==
  /\ TypeOK
  /\ CommitInv /\ DiskInv /\ TransactionInv /\ RowsReadOnce
  /\ ManifestInv /\ BuildInv /\ BackupInv
  /\ ReceiptInv /\ EvictionInv

--------------------------------------------------------------------------------
(* Files *)

\* What a spool commit and a compaction write are artifacts.
LEMMA PartIsArtifact ==
  ASSUME NEW f \in Feeds, NEW S \in SUBSET Segments
  PROVE  Part(f, S) \in Artifacts /\ Part(f, S).rows = S
BY DEF Part, Artifacts

LEMMA OutputIsArtifact ==
  ASSUME NEW f \in Feeds, txn[f] \subseteq Artifacts
  PROVE  Output(f) \in Artifacts
<1>1. \A x \in txn[f] : x.rows \subseteq Segments
  BY DEF Artifacts
<1>2. UNION {x.rows : x \in txn[f]} \subseteq Segments
  BY <1>1
<1> DEFINE R == UNION {x.rows : x \in txn[f]}
<1>3. R \in SUBSET Segments
  BY <1>2
<1> HIDE DEF R
<1>4. [feed |-> f, type |-> "compacted", rows |-> R] \in Artifacts
  BY <1>3 DEF Artifacts
<1>5. QED
  BY <1>4 DEF Output, Merged, R

\* A process dies, or a pass ends: its memory is empty and well typed.
LEMMA NoneIsReceipt == None \in Receipts
BY DEF None, Receipts

--------------------------------------------------------------------------------
(* Types *)

\* The maintenance process starts in the invariant's types.
LEMMA InitTyped == Init => TypeOK
<1> SUFFICES ASSUME Init PROVE TypeOK
  OBVIOUS
<1>1. disk \subseteq Artifacts
  BY DEF Init, Raw, Artifacts
<1>2. sure \in BOOLEAN
  BY Zenon DEF Init
<1>3. 0 \in 0..MaxFaults /\ 0 \in 0..MaxCrashes
  BY MaintenanceAssumption
<1>4. manifest \in Manifests
  BY DEF Init, Manifests
<1>5. head \in Heads
  BY NoneIsReceipt DEF Init, Heads
<1>6. QED
  BY <1>1, <1>2, <1>3, <1>4, <1>5, NoneIsReceipt, Zenon DEF Init, TypeOK, Kinds

\* The steps of the commit worker beside maintenance preserve the types.
LEMMA CommitTyped ==
  ASSUME TypeOK, NEW f \in Feeds, CommitStep(f) \/ CommitCrash(f)
  PROVE  TypeOK'
<1> USE DEF archive, memory, bounds
<1>1. \A s \in SpoolOf(f) : s \in Segments
  BY DEF TypeOK, SpoolOf
<1>2. CASE BeginCommit(f)
  BY <1>1, <1>2 DEF TypeOK, BeginCommit
<1>3. CASE WritePart(f)
  BY <1>3, PartIsArtifact DEF TypeOK, WritePart, collector
<1>4. CASE UnlinkSegment(f)
  BY <1>4 DEF TypeOK, UnlinkSegment
<1>5. CASE EndCommit(f)
  BY <1>5 DEF TypeOK, EndCommit
<1>6. CASE CommitCrash(f)
  BY <1>6, MaintenanceAssumption DEF TypeOK, CommitCrash
<1>7. QED
  BY <1>2, <1>3, <1>4, <1>5, <1>6 DEF CommitStep

\* So do the steps of compaction.
LEMMA CompactionTyped ==
  ASSUME TypeOK, NEW f \in Feeds, CompactionStep(f) \/ CompactionFails(f)
  PROVE  TypeOK'
<1> USE DEF archive, collector, memory, bounds, Goto
<1>1. CASE LeavePartition(f)
  BY <1>1 DEF TypeOK, LeavePartition
<1>2. CASE OpenTransaction(f)
  BY <1>2 DEF TypeOK, OpenTransaction, ParquetOf
<1>3. CASE ResumeTransaction(f)
  BY <1>3 DEF TypeOK, ResumeTransaction
<1>4. CASE Merge(f)
  <2>1. Output(f) \in Artifacts
    BY OutputIsArtifact DEF TypeOK
  <2>2. QED
    BY <1>4, <2>1 DEF TypeOK, Merge
<1>5. CASE DropSource(f)
  BY <1>5 DEF TypeOK, DropSource
<1>6. CASE CloseTransaction(f)
  BY <1>6 DEF TypeOK, CloseTransaction
<1>7. CASE CompactionFails(f)
  BY <1>7, MaintenanceAssumption DEF TypeOK, CompactionFails, Fault
<1>8. QED
  BY <1>1, <1>2, <1>3, <1>4, <1>5, <1>6, <1>7 DEF CompactionStep

\* An empty memory is well typed.
LEMMA RestTyped ==
  ASSUME Rest
  PROVE  /\ pc' = "idle" /\ feeds' \subseteq Feeds /\ sure' \in BOOLEAN
         /\ chosen' \subseteq Artifacts /\ draft' \in Receipts
         /\ kind' \in Kinds /\ job' \subseteq Artifacts
<1>1. sure' \in BOOLEAN
  BY Zenon DEF Rest
<1>2. QED
  BY <1>1, NoneIsReceipt DEF Rest, Goto, Kinds

\* The steps of the loop and of the manifest preserve the types.
LEMMA ManifestTyped ==
  ASSUME TypeOK,
         \/ BeginCompaction \/ SkipCompaction \/ EndCompaction \/ SkipBackups
         \/ ReuseManifest \/ BeginManifest \/ WriteManifest
         \/ \E f \in Feeds : CountRows(f) \/ CheckPending(f)
  PROVE  TypeOK'
<1> USE DEF archive, collector, memory, bounds, Goto
<1>1. CASE BeginCompaction
  BY <1>1 DEF TypeOK, BeginCompaction
<1>2. CASE SkipCompaction \/ EndCompaction
  BY <1>2 DEF TypeOK, SkipCompaction, EndCompaction
<1>3. CASE SkipBackups
  BY <1>3, RestTyped DEF TypeOK, SkipBackups
<1>4. CASE ReuseManifest
  BY <1>4 DEF TypeOK, ReuseManifest, BackUp, Manifests
<1>5. CASE BeginManifest
  <2>1. sure' \in BOOLEAN
    BY <1>5, Zenon DEF BeginManifest
  <2>2. QED
    BY <1>5, <2>1 DEF TypeOK, BeginManifest
<1>6. CASE WriteManifest
  <2>1. manifest' \in Manifests
    BY <1>6 DEF TypeOK, WriteManifest, Manifests
  <2>2. CASE sure
    BY <1>6, <2>1, <2>2 DEF TypeOK, WriteManifest, BackUp
  <2>3. CASE ~sure
    BY <1>6, <2>1, <2>3, RestTyped DEF TypeOK, WriteManifest
  <2>4. QED
    BY <2>2, <2>3
<1>7. ASSUME NEW f \in Feeds, CountRows(f) PROVE TypeOK'
  <2>1. WithMarker(f) \subseteq Artifacts
    BY PartIsArtifact DEF TypeOK, WithMarker, ParquetOf
  <2>2. sure' \in BOOLEAN
    <3> HIDE DEF TypeOK
    <3>1. QED
      BY <1>7, Zenon DEF CountRows
  <2>3. QED
    BY <1>7, <2>1, <2>2 DEF TypeOK, CountRows
<1>8. ASSUME NEW f \in Feeds, CheckPending(f) PROVE TypeOK'
  <2>1. sure' \in BOOLEAN
    BY <1>8, Zenon DEF CheckPending
  <2>2. QED
    BY <1>8, <2>1 DEF TypeOK, CheckPending
<1>9. QED
  BY <1>1, <1>2, <1>3, <1>4, <1>5, <1>6, <1>7, <1>8

\* So do those of the backup.
LEMMA BackupTyped ==
  ASSUME TypeOK,
         \/ UploadManifest \/ UploadFile \/ UploadLost \/ EndUpload
         \/ VerifyRemote \/ UploadReceipt \/ ReceiptLost
         \/ InstallReceipt \/ RefuseBackup \/ BackupFails
  PROVE  TypeOK'
<1> USE MaintenanceAssumption DEF archive, collector, memory, bounds, Goto
<1>1. CASE UploadManifest
  BY <1>1 DEF TypeOK, UploadManifest, Heads
<1>2. CASE UploadFile
  BY <1>2 DEF TypeOK, UploadFile, Heads
<1>3. CASE UploadLost
  BY <1>3 DEF TypeOK, UploadLost, Fault
<1>4. CASE EndUpload
  BY <1>4 DEF TypeOK, EndUpload
<1>5. CASE VerifyRemote
  BY <1>5 DEF TypeOK, VerifyRemote, Heads, Receipts
<1>6. CASE UploadReceipt
  BY <1>6 DEF TypeOK, UploadReceipt, Heads
<1>7. CASE ReceiptLost
  BY <1>7 DEF TypeOK, ReceiptLost, Fault
<1>8. CASE InstallReceipt
  <2>1. sure' \in BOOLEAN
    BY <1>8, Zenon DEF InstallReceipt
  <2>2. QED
    BY <1>8, <2>1, NoneIsReceipt DEF TypeOK, InstallReceipt, Kinds
<1>9. CASE RefuseBackup
  BY <1>9, RestTyped DEF TypeOK, RefuseBackup
<1>10. CASE BackupFails
  BY <1>10, RestTyped DEF TypeOK, BackupFails, Fault
<1>11. QED
  BY <1>1, <1>2, <1>3, <1>4, <1>5, <1>6, <1>7, <1>8, <1>9, <1>10

\* Passing to the next kind keeps the types of the memory.
LEMMA NextKindTyped ==
  ASSUME TypeOK, NextKind
  PROVE  /\ pc' \in {"prune", "idle"} /\ feeds' \subseteq Feeds /\ sure' \in BOOLEAN
         /\ chosen' \subseteq Artifacts /\ draft' \in Receipts
         /\ kind' \in Kinds /\ job' \subseteq Artifacts
<1>1. CASE kind = "raw"
  BY <1>1 DEF TypeOK, NextKind, Goto, Kinds
<1>2. CASE kind # "raw"
  <2>1. Rest
    BY <1>2 DEF NextKind
  <2>2. QED
    BY <2>1, RestTyped
<1>3. QED
  BY <1>1, <1>2

\* The steps of retention, and what happens to the process, preserve the types.
LEMMA EvictionTyped ==
  ASSUME TypeOK,
         \/ BeginPruning \/ AuthorizePrune \/ RefusePrune \/ UnlinkFile
         \/ EndPrune \/ PruneFails \/ Crash \/ Restart
         \/ \E k \in Kinds : Age(k)
  PROVE  TypeOK'
<1> USE MaintenanceAssumption DEF archive, collector, memory, bounds, Goto
<1>1. CASE BeginPruning
  BY <1>1 DEF TypeOK, BeginPruning
<1>2. CASE AuthorizePrune
  <2>1. Expected(kind) \subseteq Artifacts
    BY DEF TypeOK, Expected, OfKind, Receipts
  <2>2. QED
    BY <1>2, <2>1 DEF TypeOK, AuthorizePrune, OfKind
<1>3. CASE RefusePrune \/ EndPrune
  <2>1. NextKind
    BY <1>3 DEF RefusePrune, EndPrune
  <2>2. UNCHANGED <<collector, archive, head, bounds>>
    BY <1>3 DEF RefusePrune, EndPrune
  <2>3. /\ pc' \in {"prune", "idle"} /\ feeds' \subseteq Feeds /\ sure' \in BOOLEAN
        /\ chosen' \subseteq Artifacts /\ draft' \in Receipts
        /\ kind' \in Kinds /\ job' \subseteq Artifacts
    BY <2>1, NextKindTyped
  <2>4. QED
    BY <2>2, <2>3 DEF TypeOK
<1>4. CASE UnlinkFile
  BY <1>4 DEF TypeOK, UnlinkFile
<1>5. CASE PruneFails
  <2>1. NextKind /\ UNCHANGED <<collector, archive, head, due, crashes>> /\ Fault
    BY <1>5 DEF PruneFails
  <2>2. /\ pc' \in {"prune", "idle"} /\ feeds' \subseteq Feeds /\ sure' \in BOOLEAN
        /\ chosen' \subseteq Artifacts /\ draft' \in Receipts
        /\ kind' \in Kinds /\ job' \subseteq Artifacts
    BY <2>1, NextKindTyped
  <2>3. QED
    BY <2>1, <2>2 DEF TypeOK, Fault
<1>6. CASE Crash
  <2>1. sure' \in BOOLEAN
    BY <1>6, Zenon DEF Crash
  <2>2. litter' \subseteq Feeds
    BY <1>6 DEF Crash, TypeOK
  <2>3. QED
    BY <1>6, <2>1, <2>2, NoneIsReceipt DEF TypeOK, Crash, Kinds
<1>7. CASE Restart
  BY <1>7 DEF TypeOK, Restart
<1>8. CASE \E k \in Kinds : Age(k)
  BY <1>8 DEF TypeOK, Age
<1>9. QED
  BY <1>1, <1>2, <1>3, <1>4, <1>5, <1>6, <1>7, <1>8

\* Every step preserves the types.
LEMMA StepTyped ==
  ASSUME TypeOK, [Next]_vars
  PROVE  TypeOK'
<1>1. CASE UNCHANGED vars
  BY <1>1 DEF vars, collector, archive, memory, bounds, TypeOK
<1>2. CASE \E f \in Feeds : CommitStep(f) \/ CommitCrash(f)
  BY <1>2, CommitTyped
<1>3. CASE \E f \in Feeds : CompactionStep(f) \/ CompactionFails(f)
  BY <1>3, CompactionTyped
<1>4. QED
  BY <1>1, <1>2, <1>3, ManifestTyped, BackupTyped, EvictionTyped
  DEF Next, MaintenanceStep, FailureStep

\* Types hold in every reachable state: files of maintenance are artifacts of the
\* date, and counters stay within their bounds.
THEOREM MaintenanceTyped == Safety => []TypeOK
<1>1. TypeOK /\ [Next]_vars => TypeOK'
  BY StepTyped
<1>2. QED
  BY InitTyped, <1>1, PTL DEF Safety

--------------------------------------------------------------------------------
(* Steps that change durable state *)

durable == <<spool, commit, disk, txn, manifest, receipt, intent>>

\* Most steps only move the control point or talk to the remote; these do not.
LEMMA StepKinds ==
  ASSUME [Next]_vars
  PROVE  \/ UNCHANGED durable
         \/ \E f \in Feeds :
              \/ BeginCommit(f) \/ WritePart(f) \/ UnlinkSegment(f)
              \/ EndCommit(f) \/ CommitCrash(f)
              \/ OpenTransaction(f) \/ Merge(f) \/ DropSource(f) \/ CloseTransaction(f)
              \/ CountRows(f)
         \/ WriteManifest \/ InstallReceipt \/ AuthorizePrune \/ UnlinkFile
<1> USE DEF durable, collector, archive
<1>1. CASE UNCHANGED vars
  BY <1>1 DEF vars
<1>2. CASE \E f \in Feeds : CommitStep(f) \/ CommitCrash(f)
  BY <1>2 DEF CommitStep
<1>3. CASE \E f \in Feeds : CompactionStep(f) \/ CompactionFails(f)
  BY <1>3 DEF CompactionStep, LeavePartition, ResumeTransaction, CompactionFails
<1>4. CASE \E f \in Feeds : CountRows(f) \/ CheckPending(f)
  BY <1>4 DEF CheckPending
<1>5. CASE \/ BeginCompaction \/ SkipCompaction \/ EndCompaction \/ SkipBackups
           \/ ReuseManifest \/ BeginManifest \/ WriteManifest
  BY <1>5 DEF BeginCompaction, SkipCompaction, EndCompaction, SkipBackups,
     ReuseManifest, BeginManifest
<1>6. CASE \/ UploadManifest \/ UploadFile \/ UploadLost \/ EndUpload
           \/ VerifyRemote \/ UploadReceipt \/ ReceiptLost
           \/ InstallReceipt \/ RefuseBackup \/ BackupFails
  BY <1>6 DEF UploadManifest, UploadFile, UploadLost, EndUpload, VerifyRemote,
     UploadReceipt, ReceiptLost, RefuseBackup, BackupFails
<1>7. CASE \/ BeginPruning \/ AuthorizePrune \/ RefusePrune \/ UnlinkFile
           \/ EndPrune \/ PruneFails \/ Crash \/ Restart
           \/ \E k \in Kinds : Age(k)
  BY <1>7 DEF BeginPruning, RefusePrune, EndPrune, PruneFails, Crash, Restart, Age
<1>8. QED
  BY <1>1, <1>2, <1>3, <1>4, <1>5, <1>6, <1>7 DEF Next, MaintenanceStep, FailureStep

\* The rows of a merged file belong to the feed of its transaction.
LEMMA OutputRows ==
  ASSUME TransactionInv, NEW f \in Feeds, txn[f] # {}
  PROVE  /\ Output(f).feed = f /\ Output(f).type = "compacted"
         /\ \A s \in Output(f).rows : FeedOf[s] = f
         /\ \A x \in txn[f] : x.rows \subseteq Output(f).rows
<1> DEFINE R == UNION {x.rows : x \in txn[f]}
<1>1. \A s \in R : \E x \in txn[f] : s \in x.rows
  OBVIOUS
<1>2. \A x \in txn[f] : x.rows \subseteq R
  OBVIOUS
<1>3. \A x \in txn[f] : \A s \in x.rows : FeedOf[s] = f
  BY Zenon DEF TransactionInv
<1> HIDE DEF R
<1>4. Output(f) = [feed |-> f, type |-> "compacted", rows |-> R]
  BY DEF Output, Merged, R
<1>5. QED
  BY <1>1, <1>2, <1>3, <1>4

\* A spool commit and maintenance stay out of each other's way.
LEMMA CommitPreserved ==
  ASSUME IInv, [Next]_vars
  PROVE  CommitInv'
<1> USE DEF CommitInv, SpoolBusy, SpoolOf, ParquetOf, Part
<1>1. CommitInv /\ TypeOK /\ TransactionInv /\ DiskInv /\ EvictionInv
  BY Zenon DEF IInv
<1>t. commit \in [Feeds -> SUBSET Segments] /\ spool \subseteq Segments
      /\ txn \in [Feeds -> SUBSET Artifacts]
  BY <1>1, Zenon DEF TypeOK
<1>2. CASE UNCHANGED durable
  BY <1>1, <1>2 DEF durable
<1>3. ASSUME NEW f \in Feeds, BeginCommit(f) PROVE CommitInv'
  <2>1. PICK S \in SUBSET SpoolOf(f) : S # {} /\ commit' = [commit EXCEPT ![f] = S]
    BY <1>3 DEF BeginCommit
  <2>2. UNCHANGED <<spool, disk, txn>> /\ commit[f] = {}
    BY <1>3 DEF BeginCommit, archive
  <2>3. \A x \in ParquetOf(f) : x.rows \cap spool = {}
    <3>1. Part(f, commit[f]).rows = {}
      BY <2>2
    <3>2. \A x \in ParquetOf(f) : x.rows \cap spool # {} => x = Part(f, commit[f])
      BY <1>1, Zenon DEF CommitInv
    <3> HIDE DEF Part, ParquetOf, CommitInv
    <3>3. QED
      BY <3>1, <3>2
  <2>4. txn[f] = {}
    BY <1>1, <2>1
  <2>5. QED
    BY <1>1, <1>t, <2>1, <2>2, <2>3, <2>4
<1>4. ASSUME NEW f \in Feeds, WritePart(f) PROVE CommitInv'
  BY <1>1, <1>t, <1>4 DEF WritePart, collector
<1>5. ASSUME NEW f \in Feeds, UnlinkSegment(f) PROVE CommitInv'
  BY <1>1, <1>t, <1>5 DEF UnlinkSegment, archive
<1>6. ASSUME NEW f \in Feeds, EndCommit(f) PROVE CommitInv'
  BY <1>1, <1>t, <1>6 DEF EndCommit, archive
<1>7. ASSUME NEW f \in Feeds, CommitCrash(f) PROVE CommitInv'
  BY <1>1, <1>t, <1>7 DEF CommitCrash
<1>8. ASSUME NEW f \in Feeds, OpenTransaction(f) PROVE CommitInv'
  BY <1>1, <1>t, <1>8 DEF OpenTransaction, collector
<1>9. ASSUME NEW f \in Feeds, Merge(f) PROVE CommitInv'
  <2>1. txn[f] # {}
    BY <1>1, <1>9 DEF Merge, TransactionInv
  <2>2. Output(f).feed = f /\ \A s \in Output(f).rows : FeedOf[s] = f
    BY <1>1, <2>1, OutputRows
  <2>3. QED
    BY <1>1, <1>t, <1>9, <2>1, <2>2 DEF Merge, collector
<1>10. ASSUME NEW f \in Feeds, DropSource(f) PROVE CommitInv'
  <2>1. txn[f] # {} /\ \A x \in txn[f] : x.feed = f
    BY <1>1, <1>10 DEF DropSource, TransactionInv
  <2>2. QED
    BY <1>1, <1>t, <1>10, <2>1 DEF DropSource, collector
<1>11. ASSUME NEW f \in Feeds, CloseTransaction(f) PROVE CommitInv'
  BY <1>1, <1>t, <1>11 DEF CloseTransaction, collector
<1>12. ASSUME NEW f \in Feeds, CountRows(f) PROVE CommitInv'
  BY <1>1, <1>t, <1>12 DEF CountRows, WithMarker, collector
<1>13. CASE WriteManifest \/ InstallReceipt \/ AuthorizePrune
  BY <1>1, <1>13 DEF WriteManifest, InstallReceipt, AuthorizePrune, collector
<1>14. CASE UnlinkFile
  BY <1>1, <1>t, <1>14 DEF UnlinkFile, EvictionInv, collector
<1>15. QED
  BY StepKinds, <1>2, <1>3, <1>4, <1>5, <1>6, <1>7, <1>8, <1>9, <1>10, <1>11, <1>12, <1>13, <1>14

\* Nothing that ingestion staged is lost before the receipt: what compaction
\* drops is in its output, and what a spool commit unlinks is in its part.
LEMMA DiskPreserved ==
  ASSUME IInv, [Next]_vars
  PROVE  DiskInv'
<1> USE DEF DiskInv
<1>1. DiskInv /\ CommitInv /\ TransactionInv /\ ManifestInv /\ BackupInv /\ EvictionInv
  BY Zenon DEF IInv
<1>2. CASE UNCHANGED durable
  BY <1>1, <1>2 DEF durable, Raw
<1>3. CASE \E f \in Feeds : BeginCommit(f) \/ EndCommit(f) \/ CommitCrash(f)
                              \/ OpenTransaction(f) \/ CloseTransaction(f)
  BY <1>1, <1>3 DEF BeginCommit, EndCommit, CommitCrash, OpenTransaction, CloseTransaction,
     archive, collector, Raw
<1>4. ASSUME NEW f \in Feeds, WritePart(f) PROVE DiskInv'
  <2>1. \A s \in commit[f] : FeedOf[s] = f
    BY <1>1 DEF CommitInv
  <2>2. QED
    BY <1>1, <1>4, <2>1 DEF WritePart, collector, Part, Raw
<1>5. ASSUME NEW f \in Feeds, UnlinkSegment(f) PROVE DiskInv'
  BY <1>1, <1>5 DEF UnlinkSegment, archive, Part, Raw
<1>6. ASSUME NEW f \in Feeds, Merge(f) PROVE DiskInv'
  <2>1. txn[f] # {}
    BY <1>1, <1>6 DEF Merge, TransactionInv
  <2>2. Output(f).feed = f /\ \A s \in Output(f).rows : FeedOf[s] = f
    BY <1>1, <2>1, OutputRows
  <2>3. QED
    BY <1>1, <1>6, <2>2 DEF Merge, collector, Raw
<1>7. ASSUME NEW f \in Feeds, DropSource(f) PROVE DiskInv'
  <2>1. txn[f] # {} /\ Output(f) \in disk
    BY <1>1, <1>7 DEF DropSource, TransactionInv
  <2>2. PICK x \in txn[f] : disk' = disk \ {x} /\ x # Output(f)
    BY <1>7 DEF DropSource
  <2>3. x.type # "raw" /\ x.rows \subseteq Output(f).rows
    BY <1>1, <2>1, <2>2, OutputRows DEF TransactionInv
  <2>4. UNCHANGED <<spool, receipt>>
    BY <1>7 DEF DropSource, collector
  <2>5. \A g \in Feeds : Raw(g) \in disk => Raw(g) \in disk'
    BY <2>2, <2>3 DEF Raw
  <2>6. \A s : (\E y \in disk : s \in y.rows) => \E y \in disk' : s \in y.rows
    BY <2>1, <2>2, <2>3
  <2>7. QED
    BY <1>1, <2>2, <2>4, <2>5, <2>6 DEF Raw
<1>8. ASSUME NEW f \in Feeds, CountRows(f) PROVE DiskInv'
  BY <1>1, <1>8 DEF CountRows, WithMarker, ParquetOf, collector, Part, Raw
<1>9. CASE WriteManifest \/ AuthorizePrune
  BY <1>1, <1>9 DEF WriteManifest, AuthorizePrune, collector, Raw
<1>10. CASE InstallReceipt
  <2>1. spool = {} /\ receipt = None
    BY <1>1, <1>10 DEF InstallReceipt, BackupInv, ManifestInv
  <2>2. QED
    BY <1>1, <1>10, <2>1 DEF InstallReceipt, collector, Raw
<1>11. CASE UnlinkFile
  BY <1>1, <1>11 DEF UnlinkFile, EvictionInv, collector, Raw
<1>12. QED
  BY StepKinds, <1>2, <1>3, <1>4, <1>5, <1>6, <1>7, <1>8, <1>9, <1>10, <1>11

\* Where compaction is in the middle of a transaction, it got there by a step of
\* its own, or another step has left it there.
LEMMA CompactionPoint ==
  ASSUME TypeOK, [Next]_vars, pc' \in {"merge", "drop"}
  PROVE  \/ UNCHANGED <<pc, feeds, txn, disk>>
         \/ \E f \in Feeds :
              \/ WritePart(f)
              \/ OpenTransaction(f) \/ ResumeTransaction(f) \/ Merge(f) \/ DropSource(f)
<1> USE DEF collector, archive, memory, bounds, Goto
<1>1. CASE UNCHANGED vars
  BY <1>1 DEF vars
<1>2. CASE \E f \in Feeds : CommitStep(f) \/ CommitCrash(f)
  BY <1>2 DEF CommitStep, BeginCommit, UnlinkSegment, EndCommit, CommitCrash
<1>3. CASE \E f \in Feeds : CompactionStep(f) \/ CompactionFails(f)
  BY <1>3 DEF CompactionStep, LeavePartition, CloseTransaction, CompactionFails
<1>4. CASE \E f \in Feeds : CountRows(f) \/ CheckPending(f)
  BY <1>4 DEF CountRows, CheckPending
<1>5. CASE \/ BeginCompaction \/ SkipCompaction \/ EndCompaction \/ SkipBackups
           \/ ReuseManifest \/ BeginManifest \/ WriteManifest
  BY <1>5 DEF BeginCompaction, SkipCompaction, EndCompaction, SkipBackups,
     ReuseManifest, BeginManifest, WriteManifest, BackUp, Rest
<1>6. CASE \/ UploadManifest \/ UploadFile \/ UploadLost \/ EndUpload
           \/ VerifyRemote \/ UploadReceipt \/ ReceiptLost
           \/ InstallReceipt \/ RefuseBackup \/ BackupFails
  BY <1>6 DEF UploadManifest, UploadFile, UploadLost, EndUpload, VerifyRemote,
     UploadReceipt, ReceiptLost, InstallReceipt, RefuseBackup, BackupFails, Rest
<1>7. CASE \/ BeginPruning \/ AuthorizePrune \/ RefusePrune \/ UnlinkFile
           \/ EndPrune \/ PruneFails \/ Crash \/ Restart
           \/ \E k \in Kinds : Age(k)
  BY <1>7 DEF BeginPruning, AuthorizePrune, RefusePrune, UnlinkFile, EndPrune,
     PruneFails, Crash, Restart, Age, NextKind, Rest
<1>8. QED
  BY <1>1, <1>2, <1>3, <1>4, <1>5, <1>6, <1>7 DEF Next, MaintenanceStep, FailureStep

\* An open transaction can be completed after any step: its sources are dropped
\* only behind the output, and nobody else adds to the partition meanwhile.
LEMMA TransactionPreserved ==
  ASSUME IInv, [Next]_vars
  PROVE  TransactionInv'
<1> DEFINE Sources(f) ==
      txn[f] # {} =>
        /\ \A x \in txn[f] : x.feed = f /\ x.type # "raw" /\ \A s \in x.rows : FeedOf[s] = f
        /\ ParquetOf(f) \subseteq txn[f] \cup {Output(f)}
        /\ Output(f) \in disk \/ txn[f] \subseteq disk
<1>1. TypeOK /\ CommitInv /\ DiskInv /\ TransactionInv /\ EvictionInv
  BY Zenon DEF IInv
<1>t. txn \in [Feeds -> SUBSET Artifacts]
  BY <1>1, Zenon DEF TypeOK
<1>s. \A f \in Feeds : Sources(f)
  BY <1>1, Zenon DEF TransactionInv
<1>o. txn' = txn => \A f \in Feeds : Output(f)' = Output(f)
  BY DEF Output, Merged
<1>2. \A g \in Feeds : Sources(g)'
  <2>1. CASE UNCHANGED <<txn, disk>>
    BY <1>s, <1>o, <2>1 DEF ParquetOf
  <2>2. ASSUME NEW f \in Feeds, WritePart(f) PROVE \A g \in Feeds : Sources(g)'
    <3>1. txn[f] = {}
      BY <1>1, <2>2 DEF WritePart, CommitInv, SpoolBusy
    <3>2. disk' = disk \cup {Part(f, commit[f])} /\ txn' = txn
      BY <2>2 DEF WritePart
    <3>3. Part(f, commit[f]).feed = f
      BY DEF Part
    <3>4. QED
      BY <1>s, <1>o, <3>1, <3>2, <3>3 DEF ParquetOf
  <2>3. ASSUME NEW f \in Feeds, OpenTransaction(f) PROVE \A g \in Feeds : Sources(g)'
    <3>1. txn' = [txn EXCEPT ![f] = ParquetOf(f)] /\ disk' = disk
      BY <2>3 DEF OpenTransaction
    <3>2. Sources(f)'
      BY <1>1, <1>t, <3>1 DEF ParquetOf, DiskInv
    <3>3. \A g \in Feeds \ {f} : Sources(g)'
      BY <1>s, <1>t, <3>1 DEF ParquetOf, Output, Merged
    <3>4. QED
      BY <3>2, <3>3
  <2>4. ASSUME NEW f \in Feeds, Merge(f) PROVE \A g \in Feeds : Sources(g)'
    <3>1. txn' = txn /\ disk' = disk \cup {Output(f)}
      BY <2>4 DEF Merge
    <3>2. Output(f).feed = f
      BY DEF Output, Merged
    <3> HIDE DEF Output
    <3>3. QED
      BY <1>s, <1>o, <3>1, <3>2 DEF ParquetOf
  <2>5. ASSUME NEW f \in Feeds, DropSource(f) PROVE \A g \in Feeds : Sources(g)'
    <3>1. txn[f] # {} /\ Output(f) \in disk
      BY <1>1, <2>5 DEF DropSource, TransactionInv
    <3>2. PICK x \in txn[f] : disk' = disk \ {x} /\ x # Output(f) /\ txn' = txn
      BY <2>5 DEF DropSource
    <3>3. x.feed = f
      BY <1>s, <3>1
    <3>4. \A g \in Feeds : Output(g).feed = g
      BY DEF Output, Merged
    <3>5. QED
      BY <1>s, <1>o, <3>1, <3>2, <3>3, <3>4 DEF ParquetOf
  <2>6. ASSUME NEW f \in Feeds, CloseTransaction(f) PROVE \A g \in Feeds : Sources(g)'
    BY <1>s, <1>t, <2>6 DEF CloseTransaction, ParquetOf, Output, Merged
  <2>7. ASSUME NEW f \in Feeds, CountRows(f) PROVE \A g \in Feeds : Sources(g)'
    <3>1. txn' = txn /\ disk' = disk \cup WithMarker(f)
      BY <2>7 DEF CountRows
    <3>2. txn[f] # {} => ParquetOf(f) # {}
      <4>1. Output(f).feed = f /\ Output(f).type = "compacted"
        BY DEF Output, Merged
      <4>2. QED
        BY <1>s, <4>1 DEF ParquetOf
    <3>3. \/ WithMarker(f) \subseteq disk
          \/ txn[f] = {} /\ WithMarker(f) = {Part(f, {})}
      BY <3>2 DEF WithMarker, ParquetOf
    <3>4. Part(f, {}).feed = f
      BY DEF Part
    <3>5. QED
      BY <1>s, <1>o, <3>1, <3>3, <3>4 DEF ParquetOf
  <2>8. CASE UnlinkFile
    <3>1. PICK x \in job : disk' = disk \ {x} /\ txn' = txn
      BY <2>8 DEF UnlinkFile
    <3>2. (\A f \in Feeds : txn[f] = {}) \/ x.type = "raw"
      BY <1>1, <2>8 DEF UnlinkFile, EvictionInv, KindOf, TypeOK, Kinds
    <3>3. \A f \in Feeds : Output(f).type = "compacted"
      BY DEF Output, Merged
    <3>4. QED
      BY <1>s, <1>o, <3>1, <3>2, <3>3 DEF ParquetOf
  <2>9. QED
    BY StepKinds, <2>1, <2>2, <2>3, <2>4, <2>5, <2>6, <2>7, <2>8
    DEF durable, BeginCommit, UnlinkSegment, EndCommit, CommitCrash,
        WriteManifest, InstallReceipt, AuthorizePrune, archive
<1>3. ASSUME pc' \in {"merge", "drop"}
      PROVE  \A g \in Feeds : Current(g)' => txn[g]' # {} /\ (pc' = "drop" => Output(g)' \in disk')
  <2>1. \A g \in Feeds : pc \in {"merge", "drop"} /\ Current(g) =>
          txn[g] # {} /\ (pc = "drop" => Output(g) \in disk)
    BY <1>1 DEF TransactionInv
  <2>c. \A f, g \in Feeds : Current(f) /\ Current(g) => f = g
    BY MaintenanceAssumption DEF Current
  <2>2. CASE UNCHANGED <<pc, feeds, txn, disk>>
    BY <1>3, <2>1, <2>2, <1>o DEF Current
  <2>3. ASSUME NEW f \in Feeds, WritePart(f)
        PROVE  \A g \in Feeds : Current(g)' => txn[g]' # {} /\ (pc' = "drop" => Output(g)' \in disk')
    BY <1>3, <1>o, <2>1, <2>3 DEF WritePart, memory, Current
  <2>4. ASSUME NEW f \in Feeds, OpenTransaction(f)
        PROVE  \A g \in Feeds : Current(g)' => txn[g]' # {} /\ (pc' = "drop" => Output(g)' \in disk')
    <3>1. Cardinality({}) = 0
      BY FS_EmptySet
    <3>2. MinFiles > 0
      BY MaintenanceAssumption
    <3>3. ParquetOf(f) # {}
      BY <2>4, <3>1, <3>2, MaintenanceAssumption DEF OpenTransaction
    <3>4. QED
      BY <1>t, <2>4, <2>c, <3>3 DEF OpenTransaction, memory, Goto, Current
  <2>5. ASSUME NEW f \in Feeds, ResumeTransaction(f)
        PROVE  \A g \in Feeds : Current(g)' => txn[g]' # {} /\ (pc' = "drop" => Output(g)' \in disk')
    BY <1>o, <2>5, <2>c DEF ResumeTransaction, memory, archive, Goto, Current
  <2>6. ASSUME NEW f \in Feeds, Merge(f) \/ DropSource(f)
        PROVE  \A g \in Feeds : Current(g)' => txn[g]' # {} /\ (pc' = "drop" => Output(g)' \in disk')
    BY <1>o, <2>1, <2>6, <2>c DEF Merge, DropSource, memory, Goto, Current
  <2>7. QED
    BY <1>1, <1>3, CompactionPoint, <2>2, <2>3, <2>4, <2>5, <2>6
<1>4. QED
  BY <1>2, <1>3 DEF TransactionInv

\* A step that adds rows to a partition adds no row that one of its files has,
\* unless a transaction is open; and its end leaves one file.
LEMMA RowsReadOncePreserved ==
  ASSUME IInv, [Next]_vars
  PROVE  RowsReadOnce'
<1> DEFINE Once(f) ==
      txn[f] = {} => \A x, y \in ParquetOf(f) : x # y => x.rows \cap y.rows = {}
<1>1. TypeOK /\ CommitInv /\ TransactionInv /\ RowsReadOnce
  BY Zenon DEF IInv
<1>t. txn \in [Feeds -> SUBSET Artifacts]
  BY <1>1, Zenon DEF TypeOK
<1>s. \A f \in Feeds : Once(f)
  BY <1>1, Zenon DEF RowsReadOnce
<1>2. CASE UNCHANGED <<txn, disk>>
  BY <1>s, <1>2 DEF RowsReadOnce, ParquetOf
<1>3. ASSUME NEW f \in Feeds, WritePart(f) PROVE RowsReadOnce'
  <2>1. txn' = txn /\ disk' = disk \cup {Part(f, commit[f])}
    BY <1>3 DEF WritePart
  <2>2. \A x \in ParquetOf(f) : x.rows \cap commit[f] = {}
    <3>1. commit[f] \subseteq spool /\ Part(f, commit[f]) \notin ParquetOf(f)
      BY <1>3 DEF WritePart, ParquetOf
    <3>2. \A x \in ParquetOf(f) : x.rows \cap spool # {} => x = Part(f, commit[f])
      BY <1>1, Zenon DEF CommitInv
    <3>3. QED
      BY <3>1, <3>2
  <2>3. Part(f, commit[f]).feed = f /\ Part(f, commit[f]).rows = commit[f]
    BY DEF Part
  <2>4. ParquetOf(f)' \subseteq ParquetOf(f) \cup {Part(f, commit[f])}
    BY <2>1 DEF ParquetOf
  <2>5. \A g \in Feeds \ {f} : ParquetOf(g)' = ParquetOf(g)
    BY <2>1, <2>3 DEF ParquetOf
  <2>6. Once(f)'
    BY <1>s, <2>1, <2>2, <2>3, <2>4
  <2>7. \A g \in Feeds \ {f} : Once(g)'
    BY <1>s, <2>1, <2>5
  <2>8. QED
    BY <2>6, <2>7 DEF RowsReadOnce
<1>4. ASSUME NEW f \in Feeds, OpenTransaction(f) PROVE RowsReadOnce'
  BY <1>s, <1>t, <1>4 DEF OpenTransaction, RowsReadOnce, ParquetOf
<1>5. ASSUME NEW f \in Feeds, Merge(f) PROVE RowsReadOnce'
  <2>1. txn' = txn /\ txn[f] # {} /\ disk' = disk \cup {Output(f)}
    BY <1>1, <1>5 DEF Merge, TransactionInv
  <2>2. Output(f).feed = f
    BY DEF Output, Merged
  <2>3. QED
    BY <1>s, <2>1, <2>2 DEF RowsReadOnce, ParquetOf
<1>6. ASSUME NEW f \in Feeds, DropSource(f) PROVE RowsReadOnce'
  BY <1>s, <1>6 DEF DropSource, RowsReadOnce, ParquetOf
<1>7. ASSUME NEW f \in Feeds, CloseTransaction(f) PROVE RowsReadOnce'
  <2>1. /\ txn' = [txn EXCEPT ![f] = {}] /\ disk' = disk
        /\ txn[f] # {} /\ txn[f] \cap disk \subseteq {Output(f)}
    BY <1>1, <1>7 DEF CloseTransaction, TransactionInv
  <2>2. ParquetOf(f) \subseteq txn[f] \cup {Output(f)}
    BY <1>1, <2>1, Zenon DEF TransactionInv
  <2>3. ParquetOf(f)' \subseteq {Output(f)}
    BY <2>1, <2>2 DEF ParquetOf
  <2>4. \A g \in Feeds \ {f} : Once(g)'
    BY <1>s, <1>t, <2>1 DEF ParquetOf
  <2>5. QED
    BY <2>3, <2>4 DEF RowsReadOnce
<1>8. ASSUME NEW f \in Feeds, CountRows(f) PROVE RowsReadOnce'
  <2>1. txn' = txn /\ disk' = disk \cup WithMarker(f)
    BY <1>8 DEF CountRows
  <2>2. \/ WithMarker(f) = ParquetOf(f)
        \/ ParquetOf(f) = {} /\ WithMarker(f) = {Part(f, {})}
    BY DEF WithMarker
  <2>3. Part(f, {}).feed = f
    BY DEF Part
  <2>4. Once(f)'
    BY <1>s, <2>1, <2>2 DEF ParquetOf
  <2>5. \A g \in Feeds \ {f} : Once(g)'
    BY <1>s, <2>1, <2>2, <2>3 DEF ParquetOf
  <2>6. QED
    BY <2>4, <2>5 DEF RowsReadOnce
<1>9. CASE UnlinkFile
  BY <1>s, <1>9 DEF UnlinkFile, RowsReadOnce, ParquetOf
<1>10. QED
  BY StepKinds, <1>2, <1>3, <1>4, <1>5, <1>6, <1>7, <1>8, <1>9
  DEF durable, BeginCommit, UnlinkSegment, EndCommit, CommitCrash,
      WriteManifest, InstallReceipt, AuthorizePrune, archive

\* A complete manifest goes on covering the date, and goes on telling apart a
\* partition that compaction has rewritten since.
LEMMA ManifestPreserved ==
  ASSUME IInv, [Next]_vars
  PROVE  ManifestInv'
<1> DEFINE Listed(f) == FilesOf(manifest.artifacts, f)
           Same(f) == txn[f] = {} /\ Listed(f) \subseteq disk => Listed(f) = ParquetOf(f)
<1>1. TypeOK /\ CommitInv /\ DiskInv /\ TransactionInv /\ ManifestInv /\ BuildInv /\ BackupInv
  BY Zenon DEF IInv
<1>t. txn \in [Feeds -> SUBSET Artifacts] /\ spool \subseteq Segments
  BY <1>1, Zenon DEF TypeOK
<1>s. manifest.complete =>
        spool = {} /\ Covers(manifest.artifacts)
        /\ \A f \in Feeds : Listed(f) # {} /\ Same(f)
  BY <1>1, Zenon DEF ManifestInv
<1>f. \A f \in Feeds : \A x \in Listed(f) : x.feed = f /\ x.type # "raw"
  BY DEF FilesOf
<1>m. SUFFICES ASSUME ~WriteManifest
               PROVE  ManifestInv'
  <2>1. ASSUME WriteManifest PROVE ManifestInv'
    <3>1. manifest' = [complete |-> sure, artifacts |-> disk] /\ UNCHANGED <<spool, txn, disk>>
      BY <2>1 DEF WriteManifest, collector
    <3>2. receipt = None
      BY <1>1, <2>1 DEF WriteManifest, BackupInv
    <3>3. sure => \A f \in Feeds : SpoolOf(f) = {} /\ ParquetOf(f) # {}
      BY <1>1, <2>1 DEF WriteManifest, BuildInv
    <3>4. sure => spool = {}
      BY <1>t, <3>3, MaintenanceAssumption DEF SpoolOf
    <3>5. sure => Covers(disk)
      BY <1>1, <3>2, <3>4 DEF DiskInv, Covers
    <3>6. \A f \in Feeds : FilesOf(disk, f) = ParquetOf(f)
      BY DEF FilesOf, ParquetOf
    <3>7. Covers(disk)' = Covers(disk) /\ \A f \in Feeds : ParquetOf(f)' = ParquetOf(f)
      BY <3>1 DEF Covers, ParquetOf, Raw
    <3>8. manifest'.complete = sure /\ manifest'.artifacts = disk
      BY <3>1
    <3>9. Covers(manifest.artifacts)' = Covers(disk)
      BY <3>8 DEF Covers, Raw
    <3>10. \A f \in Feeds : FilesOf(manifest.artifacts, f)' = FilesOf(disk, f)
      BY <3>8 DEF FilesOf
    <3>11. QED
      BY <3>1, <3>3, <3>4, <3>5, <3>6, <3>7, <3>8, <3>9, <3>10 DEF ManifestInv
  <2>2. QED
    BY <2>1
<1>u. manifest' = manifest
  BY <1>m, StepKinds DEF durable, BeginCommit, WritePart, UnlinkSegment, EndCommit, CommitCrash,
     OpenTransaction, Merge, DropSource, CloseTransaction, CountRows,
     InstallReceipt, AuthorizePrune, UnlinkFile, archive
<1>w. SUFFICES ASSUME manifest.complete
               PROVE  spool' = {} /\ \A f \in Feeds : Same(f)'
  <2>1. Covers(manifest.artifacts)' = Covers(manifest.artifacts)
    BY <1>u DEF Covers, Raw
  <2>2. \A f \in Feeds : Listed(f)' = Listed(f)
    BY <1>u DEF FilesOf
  <2>3. QED
    BY <1>s, <1>u, <1>w, <2>1, <2>2 DEF ManifestInv
<1>l. \A f \in Feeds : Listed(f)' = Listed(f)
  BY <1>u DEF FilesOf
<1> HIDE DEF Listed
<1>2. CASE UNCHANGED <<spool, txn, disk>>
  BY <1>s, <1>w, <1>l, <1>2 DEF ParquetOf
<1>3. ASSUME NEW f \in Feeds, WritePart(f) \/ UnlinkSegment(f) PROVE FALSE
  BY <1>s, <1>w, <1>3 DEF WritePart, UnlinkSegment
<1>4. ASSUME NEW f \in Feeds, OpenTransaction(f) PROVE spool' = {} /\ \A g \in Feeds : Same(g)'
  BY <1>s, <1>t, <1>w, <1>l, <1>4 DEF OpenTransaction, collector, ParquetOf
<1>5. ASSUME NEW f \in Feeds, Merge(f) PROVE spool' = {} /\ \A g \in Feeds : Same(g)'
  <2>1. /\ spool' = spool /\ txn' = txn /\ disk' = disk \cup {Output(f)}
        /\ txn[f] # {} /\ Output(f).feed = f
    BY <1>1, <1>5 DEF Merge, TransactionInv, collector, Output, Merged
  <2>2. QED
    BY <1>s, <1>w, <1>l, <1>f, <2>1 DEF ParquetOf
<1>6. ASSUME NEW f \in Feeds, DropSource(f) PROVE spool' = {} /\ \A g \in Feeds : Same(g)'
  <2>1. PICK x \in txn[f] : spool' = spool /\ txn' = txn /\ disk' = disk \ {x}
    BY <1>6 DEF DropSource, collector
  <2>2. x.feed = f
    BY <1>1, <2>1 DEF TransactionInv
  <2>3. QED
    BY <1>s, <1>w, <1>l, <2>1, <2>2 DEF ParquetOf
<1>7. ASSUME NEW f \in Feeds, CloseTransaction(f) PROVE spool' = {} /\ \A g \in Feeds : Same(g)'
  <2>1. /\ spool' = spool /\ txn' = [txn EXCEPT ![f] = {}] /\ disk' = disk
        /\ txn[f] # {} /\ txn[f] \cap disk \subseteq {Output(f)}
    BY <1>1, <1>7 DEF CloseTransaction, TransactionInv, collector
  <2>2. ParquetOf(f) \subseteq txn[f] \cup {Output(f)}
    BY <1>1, <2>1, Zenon DEF TransactionInv
  <2>3. ParquetOf(f)' \subseteq {Output(f)} /\ ParquetOf(f)' = ParquetOf(f)
    BY <2>1, <2>2 DEF ParquetOf
  <2>4. Listed(f) \subseteq disk => Listed(f) \subseteq ParquetOf(f)
    BY <1>f DEF ParquetOf
  <2>n. Listed(f) # {}
    BY <1>s, <1>w
  <2>5. Same(f)'
    <3>1. ASSUME Listed(f) \subseteq disk PROVE Listed(f) = ParquetOf(f)
      BY <2>n, <2>3, <2>4, <3>1
    <3>2. QED
      BY <1>l, <2>1, <2>3, <3>1
  <2>6. \A g \in Feeds \ {f} : Same(g)'
    BY <1>s, <1>t, <1>w, <1>l, <2>1 DEF ParquetOf
  <2>7. QED
    BY <1>s, <1>w, <2>1, <2>5, <2>6
<1>8. ASSUME NEW f \in Feeds, CountRows(f) PROVE spool' = {} /\ \A g \in Feeds : Same(g)'
  <2>1. spool' = spool /\ txn' = txn /\ disk' = disk \cup WithMarker(f)
    BY <1>8 DEF CountRows, collector
  <2>2. CASE WithMarker(f) = ParquetOf(f)
    <3>1. disk' = disk
      BY <2>1, <2>2 DEF ParquetOf
    <3>2. QED
      BY <1>2, <2>1, <3>1
  <2>3. CASE ParquetOf(f) = {} /\ WithMarker(f) = {Part(f, {})}
    <3>1. Part(f, {}).feed = f
      BY DEF Part
    <3>2. ParquetOf(f)' \subseteq {Part(f, {})}
      BY <2>1, <2>3 DEF ParquetOf
    <3>3. Listed(f) \subseteq disk' => Listed(f) \subseteq ParquetOf(f)'
      BY <1>f DEF ParquetOf
    <3>4. Same(f)'
      BY <1>s, <1>w, <1>l, <3>2, <3>3
    <3>5. \A g \in Feeds \ {f} : Same(g)'
      BY <1>s, <1>w, <1>l, <1>f, <2>1, <2>3, <3>1 DEF ParquetOf
    <3>6. QED
      BY <1>s, <1>w, <2>1, <3>4, <3>5
  <2>4. QED
    BY <2>2, <2>3 DEF WithMarker
<1>9. CASE UnlinkFile
  BY <1>s, <1>w, <1>l, <1>9 DEF UnlinkFile, collector, ParquetOf
<1>10. QED
  BY <1>m, StepKinds, <1>2, <1>3, <1>4, <1>5, <1>6, <1>7, <1>8, <1>9
  DEF durable, BeginCommit, EndCommit, CommitCrash, InstallReceipt, AuthorizePrune,
      archive, collector

--------------------------------------------------------------------------------
(* Where the process stands *)

Building == {"count", "pending"}
BackingUp == {"describe", "upload", "verify", "publish", "install"}
Working == {"compact", "merge", "drop"} \cup Building \cup BackingUp

\* While a manifest is built, the rest of the system only adds parts and removes
\* segments.
LEMMA BuildPoint ==
  ASSUME TypeOK, [Next]_vars, pc' \in Building
  PROVE  \/ /\ UNCHANGED <<pc, feeds, sure>>
            /\ spool' \subseteq spool /\ disk \subseteq disk'
         \/ BeginManifest
         \/ \E f \in Feeds : CountRows(f) \/ CheckPending(f)
<1> USE DEF collector, archive, memory, bounds, Goto, Building
<1>1. CASE UNCHANGED vars
  BY <1>1 DEF vars
<1>2. CASE \E f \in Feeds : CommitStep(f) \/ CommitCrash(f)
  BY <1>2 DEF CommitStep, BeginCommit, WritePart, UnlinkSegment, EndCommit, CommitCrash
<1>3. CASE \E f \in Feeds : CompactionStep(f) \/ CompactionFails(f)
  BY <1>3 DEF CompactionStep, LeavePartition, OpenTransaction, ResumeTransaction, Merge,
     DropSource, CloseTransaction, CompactionFails
<1>4. CASE \/ BeginCompaction \/ SkipCompaction \/ EndCompaction \/ SkipBackups
           \/ ReuseManifest \/ WriteManifest
  BY <1>4 DEF BeginCompaction, SkipCompaction, EndCompaction, SkipBackups,
     ReuseManifest, WriteManifest, BackUp, Rest
<1>5. CASE \/ UploadManifest \/ UploadFile \/ UploadLost \/ EndUpload
           \/ VerifyRemote \/ UploadReceipt \/ ReceiptLost
           \/ InstallReceipt \/ RefuseBackup \/ BackupFails
  BY <1>5 DEF UploadManifest, UploadFile, UploadLost, EndUpload, VerifyRemote,
     UploadReceipt, ReceiptLost, InstallReceipt, RefuseBackup, BackupFails, Rest
<1>6. CASE \/ BeginPruning \/ AuthorizePrune \/ RefusePrune \/ UnlinkFile
           \/ EndPrune \/ PruneFails \/ Crash \/ Restart
           \/ \E k \in Kinds : Age(k)
  BY <1>6 DEF BeginPruning, AuthorizePrune, RefusePrune, UnlinkFile, EndPrune,
     PruneFails, Crash, Restart, Age, NextKind, Rest
<1>7. QED
  BY <1>1, <1>2, <1>3, <1>4, <1>5, <1>6 DEF Next, MaintenanceStep, FailureStep

\* The row count of a feed is taken before its spool is looked at, and no later
\* step undoes either.
LEMMA BuildPreserved ==
  ASSUME IInv, [Next]_vars
  PROVE  BuildInv'
<1>1. TypeOK /\ BuildInv /\ BackupInv
  BY Zenon DEF IInv
<1>c. \A f, g \in Feeds : Current(f) /\ Current(g) => f = g
  BY MaintenanceAssumption DEF Current
<1>2. CASE pc' \notin Building
  BY <1>2 DEF Building, BuildInv
<1>3. CASE /\ UNCHANGED <<pc, feeds, sure>>
           /\ spool' \subseteq spool /\ disk \subseteq disk'
  <2>1. \A f \in Feeds : SpoolOf(f)' \subseteq SpoolOf(f) /\ ParquetOf(f) \subseteq ParquetOf(f)'
    BY <1>3 DEF SpoolOf, ParquetOf
  <2>2. \A f \in Feeds : Current(f)' = Current(f)
    BY <1>3 DEF Current
  <2>3. QED
    BY <1>1, <1>3, <2>1, <2>2 DEF BuildInv
<1>4. CASE BeginManifest
  BY <1>4 DEF BeginManifest, Goto, BuildInv
<1>5. ASSUME NEW f \in Feeds, CountRows(f) PROVE BuildInv'
  <2>1. /\ Current(f) /\ UNCHANGED <<spool, feeds>>
        /\ disk' = disk \cup WithMarker(f)
        /\ sure' => sure /\ WithMarker(f) # {}
        /\ pc = "count" /\ pc' = "pending"
    BY <1>5 DEF CountRows, collector, Goto
  <2>2. \A g \in Feeds : SpoolOf(g)' = SpoolOf(g) /\ ParquetOf(g) \subseteq ParquetOf(g)'
    BY <2>1 DEF SpoolOf, ParquetOf
  <2>3. Part(f, {}).feed = f /\ Part(f, {}).type = "part"
    BY DEF Part
  <2>4. \A x \in WithMarker(f) : x.feed = f /\ x.type # "raw"
    BY <2>3 DEF WithMarker, ParquetOf
  <2>5. WithMarker(f) \subseteq ParquetOf(f)'
    BY <2>1, <2>4 DEF ParquetOf
  <2>6. \A g \in Feeds : Current(g)' => g = f
    BY <1>c, <2>1 DEF Current
  <2>7. QED
    BY <1>1, <2>1, <2>2, <2>5, <2>6 DEF BuildInv
<1>6. ASSUME NEW f \in Feeds, CheckPending(f) PROVE BuildInv'
  <2>1. /\ Current(f) /\ UNCHANGED <<spool, disk>>
        /\ sure' => sure /\ SpoolOf(f) = {}
        /\ pc = "pending" /\ pc' = "count" /\ feeds' = feeds \ {f}
    BY <1>6 DEF CheckPending, collector, archive, Goto
  <2>2. \A g \in Feeds : SpoolOf(g)' = SpoolOf(g) /\ ParquetOf(g)' = ParquetOf(g)
    BY <2>1 DEF SpoolOf, ParquetOf
  <2>3. QED
    BY <1>1, <2>1, <2>2 DEF BuildInv
<1>7. QED
  BY <1>1, BuildPoint, <1>2, <1>3, <1>4, <1>5, <1>6

\* Nobody but this process writes the receipt, the manifest, or the draft.
LEMMA WorkPoint ==
  ASSUME TypeOK, [Next]_vars, pc' \in Working
  PROVE  receipt' = receipt /\ (pc \in Working \/ receipt = None)
<1> USE DEF collector, archive, memory, bounds, Goto, Working, Building, BackingUp
<1>1. CASE UNCHANGED vars
  BY <1>1 DEF vars
<1>2. CASE \E f \in Feeds : CommitStep(f) \/ CommitCrash(f)
  BY <1>2 DEF CommitStep, BeginCommit, WritePart, UnlinkSegment, EndCommit, CommitCrash
<1>3. CASE \E f \in Feeds : CompactionStep(f) \/ CompactionFails(f)
  BY <1>3 DEF CompactionStep, LeavePartition, OpenTransaction, ResumeTransaction, Merge,
     DropSource, CloseTransaction, CompactionFails
<1>4. CASE \E f \in Feeds : CountRows(f) \/ CheckPending(f)
  BY <1>4 DEF CountRows, CheckPending
<1>5. CASE \/ BeginCompaction \/ SkipCompaction \/ EndCompaction \/ SkipBackups
           \/ ReuseManifest \/ BeginManifest \/ WriteManifest
  BY <1>5 DEF BeginCompaction, SkipCompaction, EndCompaction, SkipBackups,
     ReuseManifest, BeginManifest, WriteManifest, BackUp, Rest
<1>6. CASE \/ UploadManifest \/ UploadFile \/ UploadLost \/ EndUpload
           \/ VerifyRemote \/ UploadReceipt \/ ReceiptLost
           \/ InstallReceipt \/ RefuseBackup \/ BackupFails
  BY <1>6 DEF UploadManifest, UploadFile, UploadLost, EndUpload, VerifyRemote,
     UploadReceipt, ReceiptLost, InstallReceipt, RefuseBackup, BackupFails, Rest
<1>7. CASE \/ BeginPruning \/ AuthorizePrune \/ RefusePrune \/ UnlinkFile
           \/ EndPrune \/ PruneFails \/ Crash \/ Restart
           \/ \E k \in Kinds : Age(k)
  BY <1>7 DEF BeginPruning, AuthorizePrune, RefusePrune, UnlinkFile, EndPrune,
     PruneFails, Crash, Restart, Age, NextKind, Rest
<1>8. QED
  BY <1>1, <1>2, <1>3, <1>4, <1>5, <1>6, <1>7 DEF Next, MaintenanceStep, FailureStep

\* Beside a backup, the disk only grows.
LEMMA BackupPoint ==
  ASSUME TypeOK, [Next]_vars, pc' \in BackingUp
  PROVE  \/ ReuseManifest \/ WriteManifest
         \/ VerifyRemote
         \/ /\ pc \in BackingUp /\ UNCHANGED <<chosen, draft, manifest>> /\ disk \subseteq disk'
            /\ pc' \in {"publish", "install"} => pc \in {"publish", "install"}
<1> USE DEF collector, archive, memory, bounds, Goto, BackingUp
<1>1. CASE UNCHANGED vars
  BY <1>1 DEF vars
<1>2. CASE \E f \in Feeds : CommitStep(f) \/ CommitCrash(f)
  BY <1>2 DEF CommitStep, BeginCommit, WritePart, UnlinkSegment, EndCommit, CommitCrash
<1>3. CASE \E f \in Feeds : CompactionStep(f) \/ CompactionFails(f)
  BY <1>3 DEF CompactionStep, LeavePartition, OpenTransaction, ResumeTransaction, Merge,
     DropSource, CloseTransaction, CompactionFails
<1>4. CASE \E f \in Feeds : CountRows(f) \/ CheckPending(f)
  BY <1>4 DEF CountRows, CheckPending
<1>5. CASE \/ BeginCompaction \/ SkipCompaction \/ EndCompaction \/ SkipBackups
           \/ BeginManifest
  BY <1>5 DEF BeginCompaction, SkipCompaction, EndCompaction, SkipBackups,
     BeginManifest, Rest
<1>6. CASE \/ UploadManifest \/ UploadFile \/ UploadLost \/ EndUpload
           \/ UploadReceipt \/ ReceiptLost
           \/ InstallReceipt \/ RefuseBackup \/ BackupFails
  BY <1>6 DEF UploadManifest, UploadFile, UploadLost, EndUpload,
     UploadReceipt, ReceiptLost, InstallReceipt, RefuseBackup, BackupFails, Rest
<1>7. CASE \/ BeginPruning \/ AuthorizePrune \/ RefusePrune \/ UnlinkFile
           \/ EndPrune \/ PruneFails \/ Crash \/ Restart
           \/ \E k \in Kinds : Age(k)
  BY <1>7 DEF BeginPruning, AuthorizePrune, RefusePrune, UnlinkFile, EndPrune,
     PruneFails, Crash, Restart, Age, NextKind, Rest
<1>8. QED
  BY <1>1, <1>2, <1>3, <1>4, <1>5, <1>6, <1>7 DEF Next, MaintenanceStep, FailureStep

\* What is backed up is what the complete manifest lists, all of it still here,
\* and a draft receipt pins nothing less.
LEMMA BackupPreserved ==
  ASSUME IInv, [Next]_vars
  PROVE  BackupInv'
<1>1. TypeOK /\ BackupInv
  BY Zenon DEF IInv
<1>2. pc' \in Working => receipt' = None
  <2>1. pc \in Working => receipt = None
    BY <1>1 DEF BackupInv, Working, Building, BackingUp
  <2>2. None' = None
    BY DEF None
  <2>3. QED
    BY <1>1, <2>1, <2>2, WorkPoint
<1>3. ASSUME pc' \in BackingUp
      PROVE  /\ manifest'.complete /\ chosen' = manifest'.artifacts /\ chosen' \subseteq disk'
             /\ pc' \in {"publish", "install"} =>
                  draft'.artifacts = chosen' /\ chosen' \subseteq draft'.revision
  <2>1. CASE ReuseManifest
    BY <2>1 DEF ReuseManifest, BackUp, Goto, archive
  <2>2. CASE WriteManifest
    <3>1. sure
      BY <1>3, <2>2 DEF WriteManifest, Rest, Goto, BackingUp
    <3>2. QED
      BY <2>2, <3>1 DEF WriteManifest, BackUp, Goto
  <2>3. CASE VerifyRemote
    BY <1>1, <2>3 DEF VerifyRemote, Verified, BackupInv, archive
  <2>4. CASE /\ pc \in BackingUp /\ UNCHANGED <<chosen, draft, manifest>> /\ disk \subseteq disk'
             /\ pc' \in {"publish", "install"} => pc \in {"publish", "install"}
    BY <1>1, <2>4 DEF BackupInv, BackingUp
  <2>5. QED
    BY <1>1, <1>3, BackupPoint, <2>1, <2>2, <2>3, <2>4
<1>4. QED
  BY <1>2, <1>3 DEF BackupInv, Working, Building, BackingUp

--------------------------------------------------------------------------------
(* Receipt and retention *)

\* Only a backup changes the remote repository.
LEMMA HeadKept ==
  ASSUME [Next]_vars, pc \notin BackingUp
  PROVE  head' = head
<1> USE DEF collector, archive, memory, bounds, BackingUp
<1>1. CASE UNCHANGED vars
  BY <1>1 DEF vars
<1>2. CASE \E f \in Feeds : CommitStep(f) \/ CommitCrash(f)
  BY <1>2 DEF CommitStep, BeginCommit, WritePart, UnlinkSegment, EndCommit, CommitCrash
<1>3. CASE \E f \in Feeds : CompactionStep(f) \/ CompactionFails(f)
  BY <1>3 DEF CompactionStep, LeavePartition, OpenTransaction, ResumeTransaction, Merge,
     DropSource, CloseTransaction, CompactionFails
<1>4. CASE \E f \in Feeds : CountRows(f) \/ CheckPending(f)
  BY <1>4 DEF CountRows, CheckPending
<1>5. CASE \/ BeginCompaction \/ SkipCompaction \/ EndCompaction \/ SkipBackups
           \/ ReuseManifest \/ BeginManifest \/ WriteManifest
  BY <1>5 DEF BeginCompaction, SkipCompaction, EndCompaction, SkipBackups,
     ReuseManifest, BeginManifest, WriteManifest
<1>6. CASE \/ UploadManifest \/ UploadFile \/ UploadLost \/ EndUpload
           \/ VerifyRemote \/ UploadReceipt \/ ReceiptLost
           \/ InstallReceipt \/ RefuseBackup \/ BackupFails
  BY <1>6 DEF UploadManifest, UploadFile, UploadLost, EndUpload, VerifyRemote,
     UploadReceipt, ReceiptLost, InstallReceipt, RefuseBackup, BackupFails
<1>7. CASE \/ BeginPruning \/ AuthorizePrune \/ RefusePrune \/ UnlinkFile
           \/ EndPrune \/ PruneFails \/ Crash \/ Restart
           \/ \E k \in Kinds : Age(k)
  BY <1>7 DEF BeginPruning, AuthorizePrune, RefusePrune, UnlinkFile, EndPrune,
     PruneFails, Crash, Restart, Age
<1>8. QED
  BY <1>1, <1>2, <1>3, <1>4, <1>5, <1>6, <1>7 DEF Next, MaintenanceStep, FailureStep

\* Once the date has a receipt, nobody stages, compacts, describes or uploads it
\* any more: what changes it is retention.
LEMMA ConfirmedSteps ==
  ASSUME IInv, [Next]_vars, receipt # None
  PROVE  /\ UNCHANGED <<receipt, head, manifest, spool>>
         /\ UNCHANGED <<disk, txn, intent>> \/ AuthorizePrune \/ UnlinkFile
         /\ \A f \in Feeds : commit[f] = {} => commit'[f] = {}
<1> USE DEF collector, archive
<1>1. TypeOK /\ DiskInv /\ BackupInv
  BY Zenon DEF IInv
<1>t. commit \in [Feeds -> SUBSET Segments]
  BY <1>1, Zenon DEF TypeOK
<1>2. pc \notin Working /\ spool = {}
  BY <1>1 DEF BackupInv, DiskInv, Working, Building, BackingUp
<1>3. head' = head
  BY <1>2, HeadKept DEF Working
<1>4. CASE UNCHANGED durable
  BY <1>3, <1>4 DEF durable
<1>5. ASSUME NEW f \in Feeds, BeginCommit(f) \/ WritePart(f) \/ UnlinkSegment(f) PROVE FALSE
  BY <1>2, <1>5 DEF BeginCommit, SpoolOf, WritePart, UnlinkSegment
<1>6. ASSUME NEW f \in Feeds, EndCommit(f) \/ CommitCrash(f)
      PROVE  /\ UNCHANGED <<receipt, manifest, spool, disk, txn, intent>>
             /\ \A g \in Feeds : commit[g] = {} => commit'[g] = {}
  BY <1>t, <1>6 DEF EndCommit, CommitCrash
<1>7. ASSUME NEW f \in Feeds,
             OpenTransaction(f) \/ Merge(f) \/ DropSource(f) \/ CloseTransaction(f) \/ CountRows(f)
      PROVE  FALSE
  BY <1>2, <1>7 DEF OpenTransaction, Merge, DropSource, CloseTransaction, CountRows,
     Working, Building
<1>8. CASE WriteManifest \/ InstallReceipt
  BY <1>2, <1>8 DEF WriteManifest, InstallReceipt, Working, Building, BackingUp
<1>9. CASE AuthorizePrune \/ UnlinkFile
  BY <1>3, <1>9 DEF AuthorizePrune, UnlinkFile
<1>10. QED
  BY StepKinds, <1>3, <1>4, <1>5, <1>6, <1>7, <1>8, <1>9

\* An installed receipt agrees with the manifest and with the remote, covers the
\* date, and accounts for what is still on the disk.
LEMMA ReceiptPreserved ==
  ASSUME IInv, [Next]_vars
  PROVE  ReceiptInv'
<1> DEFINE Free(k) == k = "parquet" => \A f \in Feeds : txn[f] = {}
<1>1. TypeOK /\ ManifestInv /\ BackupInv /\ ReceiptInv /\ EvictionInv
  BY Zenon DEF IInv
<1>t. disk \subseteq Artifacts /\ manifest \in Manifests /\ kind \in Kinds
      /\ intent \in [Kinds -> SUBSET Artifacts]
  BY <1>1, Zenon DEF TypeOK
<1>n. None' = None
  BY DEF None
<1>2. ASSUME receipt # None PROVE ReceiptInv'
  <2>1. /\ Covers(receipt.artifacts) /\ receipt.artifacts \subseteq receipt.revision
        /\ head.receipt = receipt /\ ReceiptAuthentic
        /\ \A k \in Kinds : Free(k) => Accounted(k)
    BY <1>1, <1>2, Zenon DEF ReceiptInv
  <2>2. UNCHANGED <<receipt, head, manifest, spool>>
    BY <1>2, ConfirmedSteps
  <2>3. Covers(receipt.artifacts)' = Covers(receipt.artifacts)
    BY <2>2 DEF Covers, Raw
  <2>4. ReceiptAuthentic'
    BY <2>1, <2>2 DEF ReceiptAuthentic
  <2>5. \A k \in Kinds : Expected(k)' = Expected(k)
    BY <2>2 DEF Expected, OfKind
  <2>6. \A k \in Kinds : Free(k)' => Accounted(k)'
    <3>1. CASE UNCHANGED <<disk, txn, intent>>
      BY <2>1, <2>5, <3>1 DEF Accounted, OfKind
    <3>2. CASE AuthorizePrune
      <4>1. /\ intent' = [intent EXCEPT ![kind] = Expected(kind)]
            /\ UNCHANGED <<disk, txn>>
        BY <3>2 DEF AuthorizePrune
      <4>2. QED
        BY <1>t, <2>1, <2>5, <4>1 DEF Accounted, OfKind
    <3>3. CASE UnlinkFile
      <4>1. PICK x \in job : disk' = disk \ {x} /\ UNCHANGED <<txn, intent>>
        BY <3>3 DEF UnlinkFile
      <4>2. KindOf(x) = kind /\ intent[kind] = Expected(kind)
        BY <1>1, <3>3, <4>1 DEF EvictionInv, UnlinkFile
      <4>3. \A k \in Kinds : k # kind => x \notin Expected(k)
        BY <4>2 DEF Expected, OfKind
      <4>4. \A k \in Kinds : OfKind(disk, k)' \subseteq OfKind(disk, k)
        BY <4>1 DEF OfKind
      <4> HIDE DEF Expected, OfKind
      <4>5. QED
        BY <2>1, <2>5, <4>1, <4>2, <4>3, <4>4 DEF Accounted
    <3>4. QED
      BY <1>2, ConfirmedSteps, <3>1, <3>2, <3>3
  <2>7. QED
    BY <2>1, <2>2, <2>3, <2>4, <2>6 DEF ReceiptInv
<1>3. CASE InstallReceipt
  <2>1. /\ receipt' = draft /\ head' = head /\ head.receipt = draft
        /\ UNCHANGED <<manifest, disk, txn>>
    BY <1>3 DEF InstallReceipt
  <2>2. /\ manifest.complete /\ chosen = manifest.artifacts /\ chosen \subseteq disk
        /\ draft.artifacts = chosen /\ chosen \subseteq draft.revision
    BY <1>1, <1>3 DEF InstallReceipt, BackupInv
  <2>3. /\ Covers(manifest.artifacts)
        /\ \A f \in Feeds : txn[f] = {} /\ FilesOf(manifest.artifacts, f) \subseteq disk
             => FilesOf(manifest.artifacts, f) = ParquetOf(f)
    BY <1>1, <2>2, Zenon DEF ManifestInv
  <2>4. receipt'.artifacts = manifest.artifacts /\ receipt'.artifacts \subseteq receipt'.revision
    BY <2>1, <2>2
  <2>5. Covers(receipt.artifacts)'
    BY <2>3, <2>4 DEF Covers, Raw
  <2>6. ReceiptAuthentic'
    <3>1. manifest = [complete |-> TRUE, artifacts |-> manifest.artifacts]
      BY <1>t, <2>2 DEF Manifests
    <3>2. QED
      BY <2>1, <2>4, <3>1 DEF ReceiptAuthentic
  <2>7. \A k \in Kinds : Free(k)' => Accounted(k)'
    <3>1. \A k \in Kinds : Expected(k)' = OfKind(manifest.artifacts, k)
      BY <2>4 DEF Expected, OfKind
    <3>2. \A k \in Kinds : OfKind(manifest.artifacts, k) \subseteq disk
      BY <2>2 DEF OfKind
    <3>3. OfKind(disk, "raw") \subseteq manifest.artifacts
      <4>1. \A x \in disk : x.type = "raw" => x.feed \in Feeds /\ x = Raw(x.feed)
        BY <1>t DEF Artifacts, Raw
      <4>2. QED
        BY <2>3, <4>1 DEF OfKind, KindOf, Covers
    <3>4. (\A f \in Feeds : txn[f] = {}) => OfKind(disk, "parquet") \subseteq manifest.artifacts
      <4>1. \A x \in disk : x.feed \in Feeds
        BY <1>t DEF Artifacts
      <4>2. \A f \in Feeds : FilesOf(manifest.artifacts, f) \subseteq manifest.artifacts \cap disk
        BY <2>2 DEF FilesOf
      <4>3. \A x \in OfKind(disk, "parquet") : x \in ParquetOf(x.feed)
        BY DEF OfKind, KindOf, ParquetOf
      <4>4. OfKind(disk, "parquet") \subseteq disk
        BY DEF OfKind
      <4>5. QED
        BY <2>3, <4>1, <4>2, <4>3, <4>4
    <3>5. \A k \in Kinds : OfKind(disk, k)' = OfKind(disk, k)
      BY <2>1 DEF OfKind
    <3>6. \A k \in Kinds : Free(k) => OfKind(disk, k) \subseteq OfKind(manifest.artifacts, k)
      BY <3>3, <3>4 DEF OfKind, KindOf, Kinds
    <3>7. QED
      BY <2>1, <3>1, <3>2, <3>5, <3>6 DEF Accounted
  <2>8. QED
    BY <2>1, <2>4, <2>5, <2>6, <2>7 DEF ReceiptInv
<1>4. CASE receipt = None /\ receipt' = receipt
  BY <1>n, <1>4 DEF ReceiptInv
<1>5. QED
  BY StepKinds, <1>2, <1>3, <1>4
  DEF durable, BeginCommit, WritePart, UnlinkSegment, EndCommit, CommitCrash, OpenTransaction,
      Merge, DropSource, CloseTransaction, CountRows, WriteManifest, AuthorizePrune, UnlinkFile,
      archive

\* How a step gets to retention, or stays there.
LEMMA EvictionPoint ==
  ASSUME TypeOK, [Next]_vars, pc' \in {"prune", "unlink"}
  PROVE  \/ InstallReceipt \/ BeginPruning \/ AuthorizePrune
         \/ /\ pc \in {"prune", "unlink"}
            /\ pc' = "unlink" => pc = "unlink" /\ kind' = kind /\ job' \subseteq job
<1> USE DEF collector, archive, memory, bounds, Goto
<1>1. CASE UNCHANGED vars
  BY <1>1 DEF vars
<1>2. CASE \E f \in Feeds : CommitStep(f) \/ CommitCrash(f)
  BY <1>2 DEF CommitStep, BeginCommit, WritePart, UnlinkSegment, EndCommit, CommitCrash
<1>3. CASE \E f \in Feeds : CompactionStep(f) \/ CompactionFails(f)
  BY <1>3 DEF CompactionStep, LeavePartition, OpenTransaction, ResumeTransaction, Merge,
     DropSource, CloseTransaction, CompactionFails
<1>4. CASE \E f \in Feeds : CountRows(f) \/ CheckPending(f)
  BY <1>4 DEF CountRows, CheckPending
<1>5. CASE \/ BeginCompaction \/ SkipCompaction \/ EndCompaction \/ SkipBackups
           \/ ReuseManifest \/ BeginManifest \/ WriteManifest
  BY <1>5 DEF BeginCompaction, SkipCompaction, EndCompaction, SkipBackups,
     ReuseManifest, BeginManifest, WriteManifest, BackUp, Rest
<1>6. CASE \/ UploadManifest \/ UploadFile \/ UploadLost \/ EndUpload
           \/ VerifyRemote \/ UploadReceipt \/ ReceiptLost
           \/ RefuseBackup \/ BackupFails
  BY <1>6 DEF UploadManifest, UploadFile, UploadLost, EndUpload, VerifyRemote,
     UploadReceipt, ReceiptLost, RefuseBackup, BackupFails, Rest
<1>7. CASE UnlinkFile
  BY <1>7 DEF UnlinkFile
<1>8. CASE \/ RefusePrune \/ EndPrune \/ PruneFails \/ Crash \/ Restart
           \/ \E k \in Kinds : Age(k)
  BY <1>8 DEF RefusePrune, EndPrune, PruneFails, Crash, Restart, Age, NextKind, Rest
<1>9. QED
  BY <1>1, <1>2, <1>3, <1>4, <1>5, <1>6, <1>7, <1>8 DEF Next, MaintenanceStep, FailureStep

\* Retention works on a confirmed date, and unlinks only what its plan announced.
LEMMA EvictionPreserved ==
  ASSUME IInv, [Next]_vars
  PROVE  EvictionInv'
<1>1. TypeOK /\ DiskInv /\ ManifestInv /\ BackupInv /\ EvictionInv
  BY Zenon DEF IInv
<1>t. kind \in Kinds /\ intent \in [Kinds -> SUBSET Artifacts]
  BY <1>1, Zenon DEF TypeOK
<1>n. None' = None
  BY DEF None
<1>2. CASE pc' \notin {"prune", "unlink"}
  BY <1>2 DEF EvictionInv
<1>3. CASE InstallReceipt
  <2>1. draft.artifacts = manifest.artifacts /\ Covers(manifest.artifacts)
    BY <1>1, <1>3 DEF InstallReceipt, BackupInv, ManifestInv
  <2>2. draft.artifacts # {}
    BY <2>1, MaintenanceAssumption DEF Covers
  <2>3. draft # None
    BY <2>2 DEF None
  <2>4. receipt' = draft /\ pc' = "prune"
    BY <1>3 DEF InstallReceipt, Goto
  <2>5. QED
    BY <1>n, <2>3, <2>4 DEF EvictionInv
<1>4. CASE BeginPruning
  BY <1>n, <1>4 DEF BeginPruning, archive, Goto, EvictionInv
<1>5. CASE AuthorizePrune
  <2>1. receipt # None /\ receipt' = receipt
    BY <1>1, <1>5 DEF AuthorizePrune, EvictionInv
  <2>2. /\ \A f \in Feeds : ~SpoolBusy(f)
        /\ kind = "parquet" => \A f \in Feeds : txn[f] = {}
    BY <1>5 DEF AuthorizePrune, MayPrune, InventoryClean
  <2>3. /\ intent' = [intent EXCEPT ![kind] = Expected(kind)]
        /\ job' = OfKind(disk, kind)
        /\ UNCHANGED <<kind, txn, spool, commit>>
    BY <1>5 DEF AuthorizePrune, collector
  <2>4. intent'[kind'] = Expected(kind)'
    BY <1>t, <2>1, <2>3 DEF Expected, OfKind
  <2>5. \A x \in job' : KindOf(x) = kind
    BY <2>3 DEF OfKind
  <2>6. \A f \in Feeds : ~SpoolBusy(f)'
    BY <2>2, <2>3 DEF SpoolBusy, SpoolOf
  <2>7. \A x \in job' : KindOf(x)' = kind'
    BY <2>3, <2>5 DEF KindOf
  <2>8. QED
    BY <1>n, <2>1, <2>2, <2>3, <2>4, <2>6, <2>7 DEF EvictionInv
<1>6. CASE /\ pc \in {"prune", "unlink"}
           /\ pc' = "unlink" => pc = "unlink" /\ kind' = kind /\ job' \subseteq job
           /\ ~AuthorizePrune
  <2>1. receipt # None
    BY <1>1, <1>6 DEF EvictionInv
  <2>2. /\ UNCHANGED <<receipt, spool>>
        /\ UNCHANGED <<txn, intent>>
        /\ \A f \in Feeds : commit[f] = {} => commit'[f] = {}
    BY <1>6, <2>1, ConfirmedSteps DEF UnlinkFile
  <2>3. CASE pc' = "unlink"
    <3>1. /\ \A f \in Feeds : ~SpoolBusy(f)
          /\ kind = "parquet" => \A f \in Feeds : txn[f] = {}
          /\ intent[kind] = Expected(kind)
          /\ \A x \in job : KindOf(x) = kind
      BY <1>1, <1>6, <2>3 DEF EvictionInv
    <3>2. \A f \in Feeds : ~SpoolBusy(f)'
      BY <2>2, <3>1 DEF SpoolBusy, SpoolOf
    <3>3. Expected(kind)' = Expected(kind)
      BY <1>6, <2>2, <2>3 DEF Expected, OfKind
    <3>4. \A x \in job' : KindOf(x)' = kind'
      BY <1>6, <2>3, <3>1 DEF KindOf
    <3>5. QED
      BY <1>6, <1>n, <2>1, <2>2, <2>3, <3>1, <3>2, <3>3, <3>4 DEF EvictionInv
  <2>4. CASE pc' # "unlink"
    BY <1>n, <2>1, <2>2, <2>4 DEF EvictionInv
  <2>5. QED
    BY <2>3, <2>4
<1>7. QED
  BY <1>1, EvictionPoint, <1>2, <1>3, <1>4, <1>5, <1>6

--------------------------------------------------------------------------------
(* The inductive invariant *)

\* The state after ingestion satisfies it.
LEMMA InitEstablishes == Init => IInv
<1> SUFFICES ASSUME Init PROVE IInv
  OBVIOUS
<1> USE DEF Init
<1>1. \A f \in Feeds : ParquetOf(f) = {} /\ commit[f] = {} /\ txn[f] = {}
  BY DEF ParquetOf, Raw
<1>2. CommitInv
  BY <1>1 DEF CommitInv, SpoolBusy
<1>3. DiskInv
  <2>1. \A x \in disk : x.rows = {}
    BY DEF Raw
  <2>2. receipt = None /\ spool = Segments /\ \A f \in Feeds : Raw(f) \in disk
    OBVIOUS
  <2> HIDE DEF Init
  <2>3. QED
    BY <2>1, <2>2 DEF DiskInv
<1>4. TransactionInv
  BY <1>1 DEF TransactionInv
<1>5. RowsReadOnce
  BY <1>1 DEF RowsReadOnce
<1>6. ManifestInv
  BY DEF ManifestInv
<1>7. BuildInv /\ BackupInv
  BY DEF BuildInv, BackupInv
<1>8. ReceiptInv /\ EvictionInv
  BY DEF ReceiptInv, EvictionInv
<1>9. QED
  BY InitTyped, <1>2, <1>3, <1>4, <1>5, <1>6, <1>7, <1>8, Zenon DEF IInv

\* Every step preserves it.
LEMMA StepPreserves ==
  ASSUME IInv, [Next]_vars
  PROVE  IInv'
<1>1. TypeOK'
  BY StepTyped, Zenon DEF IInv
<1>2. QED
  BY <1>1, CommitPreserved, DiskPreserved, TransactionPreserved, RowsReadOncePreserved,
     ManifestPreserved, BuildPreserved, BackupPreserved, ReceiptPreserved, EvictionPreserved,
     Zenon DEF IInv

\* Compaction, manifest, backup and retention keep to their invariant, whatever
\* the commit worker does beside them and whichever calls and processes fail.
THEOREM MaintenanceInvariant == Safety => []IInv
<1>1. IInv /\ [Next]_vars => IInv'
  BY StepPreserves
<1>2. QED
  BY InitEstablishes, <1>1, PTL DEF Safety

--------------------------------------------------------------------------------
(* What is on the disk, and what is pinned *)

\* Files that cover the date hold all of its evidence.
LEMMA CoversEvidence ==
  ASSUME NEW files \in SUBSET Artifacts, Covers(files)
  PROVE  Evidence \subseteq ContentOf(files)
<1>1. \A f \in Feeds : <<"raw", f>> \in ContentOf(files)
  <2> SUFFICES ASSUME NEW f \in Feeds PROVE <<"raw", f>> \in ContentOf(files)
    OBVIOUS
  <2>1. Raw(f) \in files /\ <<"raw", f>> \in Content(Raw(f))
    BY DEF Covers, Raw, Content
  <2>2. QED
    BY <2>1 DEF ContentOf
<1>2. \A s \in Segments : <<"rows", s>> \in ContentOf(files)
  <2> SUFFICES ASSUME NEW s \in Segments PROVE <<"rows", s>> \in ContentOf(files)
    OBVIOUS
  <2>1. PICK x \in files : s \in x.rows
    BY DEF Covers
  <2>2. x.type # "raw"
    BY <2>1 DEF Artifacts
  <2>3. <<"rows", s>> \in Content(x)
    BY <2>1, <2>2 DEF Content
  <2>4. QED
    BY <2>3 DEF ContentOf
<1>3. QED
  BY <1>1, <1>2 DEF Evidence

\* Files of the date hold nothing else.
LEMMA OnlyEvidence ==
  ASSUME NEW files \in SUBSET Artifacts
  PROVE  ContentOf(files) \subseteq Evidence
<1>1. ASSUME NEW x \in files PROVE Content(x) \subseteq Evidence
  <2>1. x.feed \in Feeds /\ x.rows \subseteq Segments
    BY DEF Artifacts
  <2>2. QED
    BY <2>1 DEF Content, Evidence
<1>2. QED
  BY <1>1 DEF ContentOf

\* Before the receipt the disk holds the date; with it, the remote revision does.
LEMMA EvidenceHeld ==
  ASSUME IInv
  PROVE  /\ receipt = None => Local = Evidence /\ Pinned = {}
         /\ receipt # None => Local \subseteq Evidence /\ Pinned = Evidence
<1>1. TypeOK /\ DiskInv /\ ReceiptInv
  BY Zenon DEF IInv
<1>t. disk \subseteq Artifacts /\ spool \subseteq Segments /\ receipt \in Receipts
  BY <1>1, Zenon DEF TypeOK
<1>2. Local \subseteq Evidence
  <2>1. ContentOf(disk) \subseteq Evidence
    BY <1>t, OnlyEvidence
  <2>2. QED
    BY <1>t, <2>1 DEF Local, Evidence
<1>3. ASSUME receipt = None PROVE Evidence \subseteq Local
  <2>1. \A f \in Feeds : <<"raw", f>> \in Local
    <3> SUFFICES ASSUME NEW f \in Feeds PROVE <<"raw", f>> \in Local
      OBVIOUS
    <3>1. Raw(f) \in disk /\ <<"raw", f>> \in Content(Raw(f))
      BY <1>1, <1>3 DEF DiskInv, Raw, Content
    <3>2. QED
      BY <3>1 DEF Local, ContentOf
  <2>2. \A s \in Segments : <<"rows", s>> \in Local
    <3> SUFFICES ASSUME NEW s \in Segments PROVE <<"rows", s>> \in Local
      OBVIOUS
    <3>1. CASE s \in spool
      BY <3>1 DEF Local
    <3>2. CASE s \notin spool
      <4>1. PICK x \in disk : s \in x.rows
        BY <1>1, <1>3, <3>2 DEF DiskInv
      <4>2. x.type # "raw"
        BY <1>t, <4>1 DEF Artifacts
      <4>3. <<"rows", s>> \in Content(x)
        BY <4>1, <4>2 DEF Content
      <4>4. QED
        BY <4>3 DEF Local, ContentOf
    <3>3. QED
      BY <3>1, <3>2
  <2>3. QED
    BY <2>1, <2>2 DEF Evidence
<1>4. ASSUME receipt # None PROVE Pinned = Evidence
  <2>1. Covers(receipt.artifacts) /\ receipt.artifacts \subseteq receipt.revision
    BY <1>1, <1>4 DEF ReceiptInv
  <2>2. receipt.artifacts \cap receipt.revision = receipt.artifacts
    BY <2>1
  <2>3. receipt.artifacts \subseteq Artifacts
    BY <1>t DEF Receipts
  <2>4. ContentOf(receipt.artifacts) = Evidence
    BY <2>1, <2>3, CoversEvidence, OnlyEvidence
  <2>5. QED
    BY <1>4, <2>2, <2>4 DEF Pinned
<1>5. receipt = None => Pinned = {}
  BY DEF Pinned
<1>6. QED
  BY <1>2, <1>3, <1>4, <1>5

--------------------------------------------------------------------------------
(* The properties *)

\* Nothing that was collected is ever missing from the disk unless a pinned remote
\* revision holds it.
THEOREM EvidenceSurvives == Safety => []NothingLost
<1>1. IInv => NothingLost
  BY EvidenceHeld DEF NothingLost
<1>2. QED
  BY MaintenanceInvariant, <1>1, PTL

\* Without an open transaction, a reader of the partition sees each row once.
THEOREM PartitionsReadOnce == Safety => []RowsReadOnce
<1>1. IInv => RowsReadOnce
  BY Zenon DEF IInv
<1>2. QED
  BY MaintenanceInvariant, <1>1, PTL

\* A compaction or a spool commit that was cut off can always be completed.
THEOREM MarkersResumable == Safety => []TransactionsResumable
<1>1. IInv => TransactionsResumable
  <2> SUFFICES ASSUME IInv PROVE TransactionsResumable
    OBVIOUS
  <2>1. TransactionInv /\ CommitInv
    BY Zenon DEF IInv
  <2>2. QED
    BY <2>1 DEF TransactionInv, CommitInv, TransactionsResumable, Unresumable
<1>2. QED
  BY MaintenanceInvariant, <1>1, PTL

\* Retention that was cut off finds its remaining work accounted for.
THEOREM EvictionsResumable == Safety => []EvictionResumable
<1>1. IInv => EvictionResumable
  <2> SUFFICES ASSUME IInv, receipt # None, NEW k \in Kinds, InventoryClean(k)
               PROVE  Accounted(k)
    BY DEF EvictionResumable
  <2>1. ReceiptInv
    BY Zenon DEF IInv
  <2>2. k = "parquet" => \A f \in Feeds : txn[f] = {}
    BY DEF InventoryClean
  <2>3. QED
    BY <2>1, <2>2 DEF ReceiptInv
<1>2. QED
  BY MaintenanceInvariant, <1>1, PTL

\* The receipt on the disk is the remote one and fits the manifest.
THEOREM ReceiptsMatch == Safety => []ReceiptMatches
<1>1. IInv => ReceiptMatches
  BY DEF IInv, ReceiptInv, ReceiptMatches
<1>2. QED
  BY MaintenanceInvariant, <1>1, PTL

\* Installing the receipt pins all evidence at once, while all of it is still on
\* the disk; retention evicts only afterwards; every other step, of either process,
\* changes neither what can be read nor what is pinned.
THEOREM MaintenanceImplementsArchive == Safety => Promise!Safety
<1>1. Init => Promise!Init
  <2> SUFFICES ASSUME Init PROVE Promise!Init
    OBVIOUS
  <2>1. receipt = None
    BY DEF Init
  <2>2. IInv
    BY InitEstablishes
  <2>3. QED
    BY <2>1, <2>2, EvidenceHeld DEF Promise!Init
<1>2. IInv /\ IInv' /\ [Next]_vars => [Promise!Next]_(Promise!archiveVars)
  <2> SUFFICES ASSUME IInv, IInv', [Next]_vars
               PROVE  [Promise!Next]_(Promise!archiveVars)
    OBVIOUS
  <2>n. None' = None /\ Evidence' = Evidence
    BY DEF None, Evidence
  <2>1. /\ receipt = None => Local = Evidence /\ Pinned = {}
        /\ receipt # None => Local \subseteq Evidence /\ Pinned = Evidence
    BY EvidenceHeld
  <2>2. /\ receipt' = None => Local' = Evidence /\ Pinned' = {}
        /\ receipt' # None => Local' \subseteq Evidence /\ Pinned' = Evidence
    <3>1. (/\ receipt = None => Local = Evidence /\ Pinned = {}
           /\ receipt # None => Local \subseteq Evidence /\ Pinned = Evidence)'
      BY EvidenceHeld, PTL
    <3>2. QED
      BY <3>1, <2>n
  <2>3. CASE receipt = None /\ receipt' = None
    BY <2>1, <2>2, <2>3 DEF Promise!archiveVars
  <2>4. CASE receipt = None /\ receipt' # None
    <3>1. InstallReceipt
      BY <2>4, StepKinds
      DEF durable, BeginCommit, WritePart, UnlinkSegment, EndCommit, CommitCrash,
          OpenTransaction, Merge, DropSource, CloseTransaction, CountRows, WriteManifest,
          AuthorizePrune, UnlinkFile, archive
    <3>2. Local' = Local
      BY <3>1 DEF InstallReceipt, collector, Local, ContentOf, Content
    <3>3. Promise!Pin
      BY <2>1, <2>2, <2>4, <3>2 DEF Promise!Pin
    <3>4. QED
      BY <3>3 DEF Promise!Next
  <2>5. CASE receipt # None
    <3>1. receipt' = receipt /\ spool' = spool
      BY <2>5, ConfirmedSteps
    <3>2. disk' \subseteq disk
      BY <2>5, ConfirmedSteps DEF AuthorizePrune, UnlinkFile
    <3>3. Local' \subseteq Local
      BY <3>1, <3>2 DEF Local, ContentOf, Content
    <3>4. Local \ Local' \in SUBSET Evidence /\ Local' = Local \ (Local \ Local')
      BY <2>1, <2>5, <3>3
    <3>5. Promise!Evict(Local \ Local')
      BY <2>1, <2>2, <2>5, <3>1, <3>4 DEF Promise!Evict
    <3>6. QED
      BY <3>4, <3>5 DEF Promise!Next
  <2>6. QED
    BY <2>3, <2>4, <2>5
<1>3. QED
  BY MaintenanceInvariant, <1>1, <1>2, PTL DEF Safety, Promise!Safety
================================================================================
