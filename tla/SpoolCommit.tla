------------------------------ MODULE SpoolCommit ------------------------------
(***************************************************************************)
(* The crash-safe spool between ingestion and Parquet.                     *)
(*                                                                         *)
(*   bkk_collector/storage/parquet_store.py   DurableParquetSpool          *)
(*   bkk_collector/storage/parquet_worker.py  ParquetCommitWorker          *)
(*                                                                         *)
(* Two threads share one directory.  The collector thread publishes one    *)
(* immutable segment per poll (stage).  The single commit worker repeats   *)
(* flush(force=True): finish what interrupted commits left behind, take a  *)
(* snapshot of the pending segments, and commit it in bounded batches.  A  *)
(* commit is a sequence of file-system calls, each of which may raise, and *)
(* the process may die between any two of them:                            *)
(*                                                                         *)
(*   write marker; write part; validate part; unlink sources; unlink marker*)
(*                                                                         *)
(* A segment is a natural number: its place in the name order that         *)
(* sorted(glob) yields.  Names are random, so a later poll may sort first. *)
(* The output and the marker of a commit are named by a digest of the      *)
(* source names, so both are identified here with the set of their         *)
(* sources; "m \in parts" stands for "the output exists and its row count  *)
(* is the expected one".                                                   *)
(***************************************************************************)
EXTENDS Integers, FiniteSets

CONSTANTS
  Segments,     \* every segment that may be staged
  Groups,       \* the (feed, date) partitions, in sorted order
  GroupOf,      \* the partition of each segment
  MaxBatch,     \* MAX_SEGMENTS_PER_COMMIT
  Corrupt,      \* segments whose payload _read_segment always refuses
  MaxFaults,    \* bound on file-system calls that raise
  MaxRestarts   \* bound on process restarts

ASSUME SpoolAssumption ==
  /\ Segments \subseteq Nat
  /\ Groups \subseteq Nat
  /\ GroupOf \in [Segments -> Groups]
  /\ MaxBatch \in Nat \ {0}
  /\ Corrupt \subseteq Segments
  /\ MaxFaults \in Nat
  /\ MaxRestarts \in Nat

VARIABLES
  \* the disk, which survives a crash
  spool,        \* segments in spool/<feed>/date=<date>
  markers,      \* commit-<digest>.json files, each as the set of its sources
  parts,        \* validated part-<digest>.parquet files, likewise
  \* the memory of the commit worker
  pc,           \* its control point
  todo,         \* markers that _recover_commits has not handled yet
  blocked,      \* partitions whose recovery failed in this flush
  plan,         \* segments of the snapshot that are still to be committed
  cur,          \* the sources of the commit (or marker) in hand
  left,         \* those of them that are not unlinked yet
  failed,       \* whether this flush has recorded an error
  \* the process
  stopping,     \* the worker's stop event
  \* history and bounds
  staged,       \* every segment ever staged
  faults,
  restarts

disk    == <<spool, markers, parts>>
memory  == <<todo, blocked, plan, cur, left, failed>>
bounds  == <<faults, restarts>>
vars    == <<disk, pc, memory, stopping, staged, bounds>>

ControlPoints ==
  {"down", "idle", "recover", "recoverUnlink", "batch", "write", "validate", "unlink"}

TypeOK ==
  /\ spool \subseteq Segments
  /\ markers \subseteq SUBSET Segments
  /\ parts \subseteq SUBSET Segments
  /\ pc \in ControlPoints
  /\ todo \subseteq SUBSET Segments
  /\ blocked \subseteq Groups
  /\ plan \subseteq Segments
  /\ cur \subseteq Segments
  /\ left \subseteq Segments
  /\ failed \in BOOLEAN
  /\ stopping \in BOOLEAN
  /\ staged \subseteq Segments
  /\ faults \in 0..MaxFaults
  /\ restarts \in 0..MaxRestarts

Committed == UNION parts
GroupsOf(S) == {GroupOf[s] : s \in S}
InGroups(S, gs) == {s \in S : GroupOf[s] \in gs}
IsLeast(x, S) == x \in S /\ \A y \in S : x <= y

\* segments[start : start + MAX_SEGMENTS_PER_COMMIT] of a sorted list.
FirstBatch(S) == {s \in S : Cardinality({t \in S : t < s}) < MaxBatch}

\* The next batch of the loop over sorted(groups.items()): the first slice of
\* the first partition that still has planned segments.
NextBatch ==
  FirstBatch({s \in plan : IsLeast(GroupOf[s], GroupsOf(plan))})

Init ==
  /\ spool = {} /\ markers = {} /\ parts = {}
  /\ pc = "idle"
  /\ todo = {} /\ blocked = {} /\ plan = {} /\ cur = {} /\ left = {}
  /\ failed = FALSE
  /\ stopping = FALSE
  /\ staged = {}
  /\ faults = 0 /\ restarts = 0

--------------------------------------------------------------------------------
(* The collector thread *)

\* stage(): an atomic write publishes the segment.  The shutdown drain ends
\* before commit_worker.stop(), so nothing is staged once the stop event is set.
Stage(s) ==
  /\ pc # "down" /\ ~stopping
  /\ s \notin staged
  /\ spool' = spool \cup {s}
  /\ staged' = staged \cup {s}
  /\ UNCHANGED <<markers, parts, pc, memory, stopping, bounds>>

--------------------------------------------------------------------------------
(* _recover_commits *)

BeginFlush ==
  /\ pc = "idle" /\ ~stopping
  /\ pc' = "recover"
  /\ todo' = markers
  /\ blocked' = {}
  /\ failed' = FALSE
  /\ UNCHANGED <<disk, plan, cur, left, stopping, staged, bounds>>

\* Mutant: trusts the marker without checking its output.
ResumeCleanup_Unchecked ==
  /\ pc = "recover"
  /\ \E m \in todo : cur' = m /\ left' = m
  /\ pc' = "recoverUnlink"
  /\ UNCHANGED <<disk, todo, blocked, plan, failed, stopping, staged, bounds>>

\* The output was committed: only the cleanup is missing.
ResumeCleanup ==
  /\ pc = "recover"
  /\ \E m \in todo :
       /\ m \in parts
       /\ cur' = m
       /\ left' = m
  /\ pc' = "recoverUnlink"
  /\ UNCHANGED <<disk, todo, blocked, plan, failed, stopping, staged, bounds>>

RecoverUnlink ==
  /\ pc = "recoverUnlink"
  /\ \E s \in left :
       /\ IsLeast(s, left)
       /\ spool' = spool \ {s}      \* FileNotFoundError is ignored here
       /\ left' = left \ {s}
  /\ UNCHANGED <<markers, parts, pc, todo, blocked, plan, cur, failed, stopping, staged, bounds>>

RecoverForget ==
  /\ pc = "recoverUnlink" /\ left = {}
  /\ markers' = markers \ {cur}
  /\ todo' = todo \ {cur}
  /\ pc' = "recover"
  /\ UNCHANGED <<spool, parts, blocked, plan, cur, left, failed, stopping, staged, bounds>>

\* No output, but every source is still there: drop the intent, commit again later.
DiscardIntent ==
  /\ pc = "recover"
  /\ \E m \in todo :
       /\ m \notin parts /\ m \subseteq spool
       /\ markers' = markers \ {m}
       /\ todo' = todo \ {m}
  /\ UNCHANGED <<spool, parts, pc, blocked, plan, cur, left, failed, stopping, staged, bounds>>

\* Mutant: the error is not recorded.
BlockMarker_Silent(m) ==
  /\ todo' = todo \ {m}
  /\ blocked' = blocked \cup GroupsOf(m)
  /\ pc' = "recover"
  /\ UNCHANGED <<disk, plan, cur, left, failed, stopping, staged, restarts>>

BlockMarker(m) ==
  /\ todo' = todo \ {m}
  /\ blocked' = blocked \cup GroupsOf(m)
  /\ failed' = TRUE
  /\ pc' = "recover"
  /\ UNCHANGED <<disk, plan, cur, left, stopping, staged, restarts>>

\* "spool commit has missing sources and no validated Parquet output"
Stranded(m) == m \notin parts /\ ~(m \subseteq spool)

\* The try block raises, because the marker is stranded or because a call
\* failed: the partition sits this flush out.
FailRecovery ==
  \E m \in todo :
    /\ pc = "recover" \/ (pc = "recoverUnlink" /\ m = cur)
    /\ Stranded(m) \/ faults < MaxFaults
    /\ faults' = IF Stranded(m) THEN faults ELSE faults + 1
    /\ BlockMarker(m)

--------------------------------------------------------------------------------
(* flush and _commit_segments *)

\* Mutant: "continue" for blocked partitions is missing.
Snapshot_Unblocked ==
  /\ pc = "recover" /\ todo = {}
  /\ plan' = spool
  /\ pc' = "batch"
  /\ UNCHANGED <<disk, todo, blocked, cur, left, failed, stopping, staged, bounds>>

Snapshot ==
  /\ pc = "recover" /\ todo = {}
  /\ plan' = {s \in spool : GroupOf[s] \notin blocked}
  /\ pc' = "batch"
  /\ UNCHANGED <<disk, todo, blocked, cur, left, failed, stopping, staged, bounds>>

\* flush returns when the plan is exhausted, or early when should_stop() holds.
EndFlush ==
  /\ pc = "batch"
  /\ plan = {} \/ stopping
  /\ pc' = "idle"
  /\ plan' = {}
  /\ UNCHANGED <<disk, todo, blocked, cur, left, failed, stopping, staged, bounds>>

WriteMarker ==
  /\ pc = "batch" /\ plan # {} /\ ~stopping
  /\ NextBatch \cap Corrupt = {}
  /\ cur' = NextBatch
  /\ markers' = markers \cup {NextBatch}
  /\ pc' = "write"
  /\ UNCHANGED <<spool, parts, todo, blocked, plan, left, failed, stopping, staged, bounds>>

WriteParquet ==
  /\ pc = "write"
  /\ parts' = parts \cup {cur}
  /\ pc' = "validate"
  /\ UNCHANGED <<spool, markers, memory, stopping, staged, bounds>>

Validate ==
  /\ pc = "validate"
  /\ cur \in parts
  /\ left' = cur
  /\ pc' = "unlink"
  /\ UNCHANGED <<disk, todo, blocked, plan, cur, failed, stopping, staged, bounds>>

UnlinkSegment ==
  /\ pc = "unlink"
  /\ \E s \in left :
       /\ IsLeast(s, left)
       /\ spool' = spool \ {s}
       /\ left' = left \ {s}
  /\ UNCHANGED <<markers, parts, pc, todo, blocked, plan, cur, failed, stopping, staged, bounds>>

UnlinkMarker ==
  /\ pc = "unlink" /\ left = {}
  /\ markers' = markers \ {cur}
  /\ plan' = plan \ cur
  /\ pc' = "batch"
  /\ UNCHANGED <<spool, parts, todo, blocked, cur, left, failed, stopping, staged, bounds>>

\* Mutant: one failing partition ends the whole flush.
AbandonGroup_Flush(batch) ==
  /\ plan' = {}
  /\ failed' = TRUE
  /\ pc' = "batch"
  /\ UNCHANGED <<disk, todo, blocked, cur, left, stopping, staged, restarts>>

\* "except Exception ... break": the rest of the partition waits for the next flush.
AbandonGroup(batch) ==
  /\ plan' = plan \ InGroups(plan, GroupsOf(batch))
  /\ failed' = TRUE
  /\ pc' = "batch"
  /\ UNCHANGED <<disk, todo, blocked, cur, left, stopping, staged, restarts>>

RefuseCorrupt ==
  /\ pc = "batch" /\ plan # {} /\ ~stopping
  /\ NextBatch \cap Corrupt # {}
  /\ AbandonGroup(NextBatch)
  /\ UNCHANGED faults

CommitFault ==
  /\ faults < MaxFaults
  /\ faults' = faults + 1
  /\ \/ pc = "batch" /\ plan # {} /\ ~stopping /\ AbandonGroup(NextBatch)
     \/ pc \in {"write", "validate", "unlink"} /\ AbandonGroup(cur)

--------------------------------------------------------------------------------
(* The process *)

RequestStop ==
  /\ pc # "down" /\ ~stopping /\ restarts < MaxRestarts
  /\ stopping' = TRUE
  /\ UNCHANGED <<disk, pc, memory, staged, bounds>>

\* The memory of the worker is gone; what it held is written as its initial value.
ForgetMemory ==
  /\ todo' = {} /\ blocked' = {} /\ plan' = {} /\ cur' = {} /\ left' = {}
  /\ failed' = FALSE

WorkerExit ==
  /\ pc = "idle" /\ stopping
  /\ pc' = "down"
  /\ stopping' = FALSE
  /\ ForgetMemory
  /\ UNCHANGED <<disk, staged, bounds>>

\* kill -9, power loss, or a daemon thread cut off when stop() times out.
Crash ==
  /\ pc # "down" /\ restarts < MaxRestarts
  /\ pc' = "down"
  /\ stopping' = FALSE
  /\ ForgetMemory
  /\ UNCHANGED <<disk, staged, bounds>>

Restart ==
  /\ pc = "down" /\ restarts < MaxRestarts
  /\ pc' = "idle"
  /\ restarts' = restarts + 1
  /\ UNCHANGED <<disk, memory, stopping, staged, faults>>

--------------------------------------------------------------------------------

WorkerStep ==
  \/ BeginFlush
  \/ ResumeCleanup \/ RecoverUnlink \/ RecoverForget \/ DiscardIntent
  \/ Snapshot \/ EndFlush
  \/ WriteMarker \/ WriteParquet \/ Validate \/ UnlinkSegment \/ UnlinkMarker \/ RefuseCorrupt
  \/ WorkerExit

Next ==
  \/ \E s \in Segments : Stage(s)
  \/ WorkerStep
  \/ FailRecovery \/ CommitFault
  \/ RequestStop \/ Crash \/ Restart

Safety == Init /\ [][Next]_vars

\* The worker thread is never starved, and the container manager restarts the
\* process; nothing forces the collector to stage, a call to fail or a crash.
Fairness == WF_vars(WorkerStep) /\ WF_vars(Restart)

Spec == Safety /\ Fairness

--------------------------------------------------------------------------------
(* Properties *)

\* Segments of the partitions that hold no corrupt segment.
Healthy == {s \in Segments : Corrupt \cap InGroups(Segments, {GroupOf[s]}) = {}}

Sink == INSTANCE ParquetSink WITH
  Polls    <- Segments,
  Healthy  <- Healthy,
  accepted <- staged,
  batches  <- parts

\* The sequence of file-system calls, crashes included, publishes every staged
\* segment atomically and at most once, and those of a readable partition in the end.
ImplementsSink == Sink!Spec

\* No crash point and no failing call loses a poll: what stage() returned for is
\* in the spool until it is in a validated Parquet part.
NothingLost == staged \subseteq spool \cup Committed

\* No poll is written twice: recommitting after a crash or an error never puts a
\* segment into a second part, although batches are regrouped on every flush.
ExactlyOnce == \A p, q \in parts : p # q => p \cap q = {}

\* The recovery's IOError branch is unreachable: each marker found on disk either
\* has its output or has all of its sources.
Recoverable == \A m \in markers : ~Stranded(m)

\* A source that outlives its commit is always covered by the marker that will
\* remove it, so that no snapshot can commit it again.
LeftoversCovered ==
  \A s \in spool \cap Committed : \E m \in markers \cap parts : s \in m

\* A failed commit must be recovered, or its partition skipped, before the
\* partition gets another marker: two intents never compete for a partition.
OneMarkerPerGroup ==
  \A m, n \in markers : GroupsOf(m) \cap GroupsOf(n) # {} => m = n

\* Sources are deleted only behind a validated part, and parts never disappear.
DeleteOnlyCommitted ==
  [][spool \ spool' \subseteq Committed /\ parts \subseteq parts']_vars

\* A flush that reports no error has cleaned up after every earlier commit: the
\* health file never hides an unfinished transaction behind "no errors".
CleanFlushIsClean ==
  [][EndFlush /\ ~stopping /\ ~failed => markers = {}]_vars

\* Corrupt segments hold up their own partition only: every other partition is
\* eventually drained, and its markers with it.
HealthyGroupsDrain ==
  <>[](\A s \in Healthy : s \notin spool /\ \A m \in markers : s \notin m)
================================================================================
