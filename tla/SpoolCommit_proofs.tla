-------------------------- MODULE SpoolCommit_proofs --------------------------
(***************************************************************************)
(* Proofs about SpoolCommit, for every set of segments, every partition of *)
(* them, every batch size and every bound on faults and restarts.          *)
(***************************************************************************)
EXTENDS SpoolCommit, TLAPS

--------------------------------------------------------------------------------
(* The inductive invariant: what the worker's memory says of the disk *)

Recovering == pc \in {"recover", "recoverUnlink"}
Committing == pc \in {"write", "validate", "unlink"}

\* The marker of the commit in hand.
InHand == IF Committing THEN {cur} ELSE {}

\* Everything named anywhere was staged once, and never with a reused name.
NamesStaged == spool \cup Committed \cup UNION markers \subseteq staged

\* A marker that recovery has passed over has blocked its partition.
RecoveryInv ==
  Recovering => /\ todo \subseteq markers
                /\ \A m \in markers \ todo : GroupsOf(m) \subseteq blocked

\* The snapshot stays clear of every partition with an old marker, and what
\* remains of it is still in the spool.
PlanInv ==
  pc = "batch" \/ Committing =>
    /\ plan \ UNION InHand \subseteq spool
    /\ \A m \in markers \ InHand : GroupsOf(m) \cap GroupsOf(plan) = {}

\* Where the commit, or the cleanup, in hand stands.
HandInv ==
  /\ Committing => cur \in markers /\ cur \subseteq plan
  /\ pc = "recoverUnlink" => cur \in todo
  /\ pc = "write" => cur \cap Committed = {}
  /\ pc \in {"recoverUnlink", "validate", "unlink"} => cur \in parts
  /\ pc \in {"recoverUnlink", "unlink"} => cur \cap spool \subseteq left /\ left \subseteq cur

\* As long as this flush has recorded no error it owes no old marker a cleanup.
CleanInv ==
  failed = FALSE =>
    /\ Recovering => markers \subseteq todo
    /\ pc = "batch" \/ Committing => markers \subseteq InHand

\* Implies every safety property above and is preserved by every step of the
\* collector, the worker, the file system and the process manager.
IInv ==
  /\ TypeOK
  /\ NothingLost /\ ExactlyOnce /\ Recoverable /\ LeftoversCovered /\ OneMarkerPerGroup
  /\ NamesStaged /\ RecoveryInv /\ PlanInv /\ HandInv /\ CleanInv

--------------------------------------------------------------------------------
\* Abandoning the partition of a batch leaves nothing of the batch, and nothing
\* of its partitions, in the plan.
LEMMA AbandonedPlan ==
  ASSUME NEW batch, AbandonGroup(batch)
  PROVE  /\ plan' \subseteq plan \ batch
         /\ GroupsOf(batch) \cap GroupsOf(plan') = {}
         /\ GroupsOf(plan') \subseteq GroupsOf(plan)
<1>1. plan' = {s \in plan : GroupOf[s] \notin GroupsOf(batch)}
  BY DEF AbandonGroup, InGroups
<1>2. \A s \in batch : GroupOf[s] \in GroupsOf(batch)
  BY DEF GroupsOf
<1> HIDE DEF GroupsOf
<1>3. plan' \subseteq plan \ batch
  BY <1>1, <1>2
<1>4. GroupsOf(plan') \subseteq GroupsOf(plan)
  BY <1>3 DEF GroupsOf
<1>5. GroupsOf(batch) \cap GroupsOf(plan') = {}
  <2>1. \A g \in GroupsOf(plan') : \E s \in plan' : g = GroupOf[s]
    BY DEF GroupsOf
  <2>2. QED
    BY <2>1, <1>1
<1>6. QED
  BY <1>3, <1>4, <1>5

\* Giving up on a partition, whether before its marker is written or anywhere
\* inside its commit, preserves the invariant.
LEMMA AbandonPreservesIInv ==
  ASSUME IInv, NEW batch, AbandonGroup(batch),
         pc = "batch" \/ (Committing /\ batch = cur),
         faults' \in 0..MaxFaults
  PROVE  IInv'
<1>1. /\ plan' \subseteq plan \ batch
      /\ GroupsOf(batch) \cap GroupsOf(plan') = {}
      /\ GroupsOf(plan') \subseteq GroupsOf(plan)
  BY AbandonedPlan
<1>2. /\ spool' = spool /\ markers' = markers /\ parts' = parts /\ staged' = staged
      /\ todo' = todo /\ blocked' = blocked /\ cur' = cur /\ left' = left
      /\ stopping' = stopping /\ restarts' = restarts
      /\ pc' = "batch" /\ failed' = TRUE
  BY DEF AbandonGroup, disk
<1>3. ~Recovering' /\ ~Committing' /\ InHand' = {}
  BY <1>2 DEF Recovering, Committing, InHand
<1>4. InHand \subseteq {batch}
  BY DEF InHand, Committing
<1>5. PlanInv
  BY DEF IInv
<1>6. plan' \subseteq spool
  BY <1>1, <1>4, <1>5 DEF PlanInv
<1>7. \A m \in markers : GroupsOf(m) \cap GroupsOf(plan') = {}
  BY <1>1, <1>4, <1>5 DEF PlanInv
<1>8. PlanInv'
  BY <1>2, <1>3, <1>6, <1>7 DEF PlanInv
<1>9. TypeOK'
  BY <1>1, <1>2 DEF IInv, TypeOK, ControlPoints
<1>10. QED
  BY <1>2, <1>3, <1>8, <1>9
  DEF IInv, NothingLost, ExactlyOnce, Recoverable, LeftoversCovered, OneMarkerPerGroup,
      NamesStaged, RecoveryInv, HandInv, CleanInv, Committed, Stranded

\* A commit takes its sources from the snapshot.
LEMMA NextBatchPlanned == NextBatch \subseteq plan
BY DEF NextBatch, FirstBatch

\* A process that finds an empty data directory starts in the invariant.
LEMMA InitEstablishesIInv == Init => IInv
<1> SUFFICES ASSUME Init PROVE IInv
  OBVIOUS
<1>1. TypeOK
  <2>1. faults \in 0..MaxFaults /\ restarts \in 0..MaxRestarts
    BY SpoolAssumption DEF Init
  <2>2. failed \in BOOLEAN /\ stopping \in BOOLEAN
    BY Zenon DEF Init
  <2>3. QED
    BY <2>1, <2>2 DEF Init, TypeOK, ControlPoints
<1>2. ~Recovering /\ ~Committing /\ pc # "batch"
  BY DEF Init, Recovering, Committing
<1>3. Committed = {}
  BY DEF Init, Committed
<1>4. QED
  BY <1>1, <1>2, <1>3
  DEF Init, IInv, NothingLost, ExactlyOnce, Recoverable, LeftoversCovered,
      OneMarkerPerGroup, NamesStaged, RecoveryInv, PlanInv, HandInv, CleanInv,
      Recovering, Committing

\* No step of any actor leaves the invariant, one actor's action at a time.
LEMMA StepPreservesIInv == IInv /\ [Next]_vars => IInv'
<1> SUFFICES ASSUME IInv, [Next]_vars PROVE IInv'
  OBVIOUS
<1> USE SpoolAssumption
    DEF IInv, TypeOK, NothingLost, ExactlyOnce, Recoverable, LeftoversCovered,
        OneMarkerPerGroup, NamesStaged, RecoveryInv, PlanInv, HandInv, CleanInv,
        Recovering, Committing, InHand, Committed, Stranded,
        ControlPoints, memory, disk, bounds
<1>1. ASSUME NEW s \in Segments, Stage(s) PROVE IInv'
  BY <1>1 DEF Stage, GroupsOf
<1>2. CASE BeginFlush
  BY ZenonT(60), <1>2 DEF BeginFlush, GroupsOf
<1>3. CASE ResumeCleanup
  BY <1>3 DEF ResumeCleanup, GroupsOf
<1>4. CASE RecoverUnlink
  BY <1>4 DEF RecoverUnlink, GroupsOf
<1>5. CASE RecoverForget
  BY <1>5 DEF RecoverForget, GroupsOf
<1>6. CASE DiscardIntent
  BY <1>6 DEF DiscardIntent, GroupsOf
<1>7. CASE FailRecovery
  <2>1. PICK m \in todo : /\ pc = "recover" \/ (pc = "recoverUnlink" /\ m = cur)
                          /\ Stranded(m) \/ faults < MaxFaults
                          /\ faults' = IF Stranded(m) THEN faults ELSE faults + 1
                          /\ BlockMarker(m)
    BY <1>7 DEF FailRecovery
  <2>2. GroupsOf(m) \subseteq Groups
    BY <2>1 DEF GroupsOf
  <2>3. TypeOK'
    <3>1. faults' \in 0..MaxFaults
      BY <2>1
    <3>2. QED
      BY <2>1, <2>2, <3>1 DEF BlockMarker
  <2>4. RecoveryInv'
    BY <2>1 DEF BlockMarker
  <2>5. QED
    BY <2>1, <2>3, <2>4 DEF BlockMarker
<1>8. CASE Snapshot
  <2>1. \A m \in markers : GroupsOf(m) \cap GroupsOf(plan') = {}
    BY <1>8 DEF Snapshot, GroupsOf
  <2>2. QED
    BY ZenonT(60), <1>8, <2>1 DEF Snapshot
<1>9. CASE EndFlush
  BY <1>9 DEF EndFlush
<1>10. CASE WriteMarker
  <2>1. NextBatch \subseteq plan
    BY NextBatchPlanned
  <2>2. GroupsOf(NextBatch) \subseteq GroupsOf(plan)
    BY <2>1 DEF GroupsOf
  <2>3. NextBatch \cap Committed = {}
    BY <1>10, <2>1 DEF WriteMarker, GroupsOf
  <2>4. OneMarkerPerGroup'
    BY <1>10, <2>2 DEF WriteMarker
  <2>5. QED
    BY <1>10, <2>1, <2>3, <2>4 DEF WriteMarker
<1>11. CASE WriteParquet
  BY <1>11 DEF WriteParquet
<1>12. CASE Validate
  BY <1>12 DEF Validate
<1>13. CASE UnlinkSegment
  BY SMTT(60), <1>13 DEF UnlinkSegment, GroupsOf
<1>14. CASE UnlinkMarker
  BY <1>14 DEF UnlinkMarker, GroupsOf
<1>15. CASE RefuseCorrupt
  BY <1>15, AbandonPreservesIInv DEF RefuseCorrupt
<1>16. CASE CommitFault
  <2>1. faults' \in 0..MaxFaults
    BY <1>16 DEF CommitFault
  <2>2. QED
    BY ZenonT(60), <1>16, <2>1, AbandonPreservesIInv DEF CommitFault
<1>17. CASE WorkerExit
  BY ZenonT(60), <1>17 DEF WorkerExit, ForgetMemory
<1>18. CASE RequestStop
  BY <1>18 DEF RequestStop
<1>19. CASE Crash
  BY ZenonT(60), <1>19 DEF Crash, ForgetMemory
<1>20. CASE Restart
  BY <1>20 DEF Restart
<1>21. CASE UNCHANGED vars
  BY <1>21 DEF vars
<1>22. QED
  BY <1>1, <1>2, <1>3, <1>4, <1>5, <1>6, <1>7, <1>8, <1>9, <1>10, <1>11, <1>12,
     <1>13, <1>14, <1>15, <1>16, <1>17, <1>18, <1>19, <1>20, <1>21
  DEF Next, WorkerStep

\* In every reachable state of the spool, after any crashes and faults, the
\* inductive invariant holds, and with it the type invariant.
THEOREM SpoolInvariant == Safety => []IInv
<1>1. Init => IInv
  BY InitEstablishesIInv
<1>2. IInv /\ [Next]_vars => IInv'
  BY StepPreservesIInv
<1>3. QED
  BY <1>1, <1>2, PTL DEF Safety

\* A poll that stage() accepted is never in neither place: it is in the spool
\* directory or in a validated part.
THEOREM StagedRowsSurvive == Safety => []NothingLost
<1>1. IInv => NothingLost
  BY DEF IInv
<1>2. QED
  BY SpoolInvariant, <1>1, PTL

\* However commits are interrupted and regrouped, no poll enters two parts.
THEOREM RowsPublishedOnce == Safety => []ExactlyOnce
<1>1. IInv => ExactlyOnce
  BY DEF IInv
<1>2. QED
  BY SpoolInvariant, <1>1, PTL

\* _recover_commits never meets a marker it can neither finish nor discard.
THEOREM MarkersRecoverable == Safety => []Recoverable
<1>1. IInv => Recoverable
  BY DEF IInv
<1>2. QED
  BY SpoolInvariant, <1>1, PTL

\* A segment is unlinked only when a validated part holds its rows, and no
\* step of the spool removes a part.
THEOREM UnlinkAfterCommit == Safety => DeleteOnlyCommitted
<1>1. IInv /\ [Next]_vars
        => [spool \ spool' \subseteq Committed /\ parts \subseteq parts']_vars
  <2> SUFFICES ASSUME IInv, [Next]_vars
               PROVE  spool \ spool' \subseteq Committed /\ parts \subseteq parts'
    OBVIOUS
  <2>1. ASSUME NEW s \in Segments, Stage(s)
        PROVE  spool \subseteq spool' /\ parts \subseteq parts'
    BY <2>1 DEF Stage
  <2>2. CASE RecoverUnlink
    <3>1. left \subseteq Committed
      BY <2>2 DEF RecoverUnlink, IInv, HandInv, Committed
    <3>2. QED
      BY <2>2, <3>1 DEF RecoverUnlink
  <2>3. CASE UnlinkSegment
    <3>1. left \subseteq Committed
      BY <2>3 DEF UnlinkSegment, IInv, HandInv, Committed
    <3>2. QED
      BY <2>3, <3>1 DEF UnlinkSegment
  <2>4. CASE WriteParquet
    BY <2>4 DEF WriteParquet
  <2>5. CASE ResumeCleanup \/ RecoverForget \/ DiscardIntent \/ FailRecovery
    BY <2>5 DEF ResumeCleanup, RecoverForget, DiscardIntent, FailRecovery, BlockMarker, disk
  <2>6. CASE BeginFlush \/ Snapshot \/ EndFlush \/ WriteMarker \/ Validate \/ UnlinkMarker
    BY <2>6 DEF BeginFlush, Snapshot, EndFlush, WriteMarker, Validate, UnlinkMarker, disk
  <2>7. CASE RefuseCorrupt \/ CommitFault
    BY <2>7 DEF RefuseCorrupt, CommitFault, AbandonGroup, disk
  <2>8. CASE WorkerExit \/ RequestStop \/ Crash \/ Restart \/ UNCHANGED vars
    BY <2>8 DEF WorkerExit, RequestStop, Crash, Restart, vars, disk
  <2>9. QED
    BY <2>1, <2>2, <2>3, <2>4, <2>5, <2>6, <2>7, <2>8 DEF Next, WorkerStep
<1>2. QED
  BY SpoolInvariant, <1>1, PTL DEF Safety, DeleteOnlyCommitted

\* When the worker publishes an empty error list after a complete flush, no
\* interrupted transaction is left on disk.
THEOREM NoErrorNoMarker == Safety => CleanFlushIsClean
<1>1. IInv => (EndFlush /\ ~stopping /\ ~failed => markers = {})
  <2> SUFFICES ASSUME IInv, EndFlush, ~stopping, ~failed PROVE markers = {}
    OBVIOUS
  <2>1. failed = FALSE
    BY Zenon DEF IInv, TypeOK
  <2>2. pc = "batch"
    BY DEF EndFlush
  <2>3. QED
    BY <2>1, <2>2 DEF IInv, CleanInv, InHand, Committing
<1>2. QED
  BY SpoolInvariant, <1>1, PTL DEF Safety, CleanFlushIsClean

\* The directory protocol implements the sink: staging accepts a poll, the
\* rename of a part publishes its whole batch, and every other step of the
\* worker, and every crash, is invisible.
THEOREM SpoolImplementsSink == Safety => Sink!Safety
<1>1. Init => Sink!Init
  BY DEF Init, Sink!Init
<1>2. IInv /\ [Next]_vars => [Sink!Next]_(Sink!sinkVars)
  <2> SUFFICES ASSUME IInv, [Next]_vars PROVE [Sink!Next]_(Sink!sinkVars)
    OBVIOUS
  <2>1. ASSUME NEW s \in Segments, Stage(s) PROVE Sink!Accept(s)
    BY <2>1 DEF Stage, Sink!Accept
  <2>2. CASE WriteParquet
    <3>1. cur \in SUBSET Segments /\ cur \subseteq staged
      BY <2>2 DEF WriteParquet, IInv, TypeOK, HandInv, Committing, NamesStaged
    <3>2. cur \cap Committed = {}
      BY <2>2 DEF WriteParquet, IInv, HandInv
    <3>3. Sink!Publish(cur)
      BY <2>2, <3>1, <3>2 DEF WriteParquet, Sink!Publish, Sink!Published, Committed
    <3>4. QED
      BY <3>1, <3>3 DEF Sink!Next
  <2>3. CASE \/ BeginFlush \/ ResumeCleanup \/ RecoverUnlink \/ RecoverForget
             \/ DiscardIntent \/ FailRecovery \/ Snapshot \/ EndFlush
    BY <2>3 DEF BeginFlush, ResumeCleanup, RecoverUnlink, RecoverForget, DiscardIntent,
                FailRecovery, BlockMarker, Snapshot, EndFlush, disk, Sink!sinkVars
  <2>4. CASE \/ WriteMarker \/ Validate \/ UnlinkSegment \/ UnlinkMarker
             \/ RefuseCorrupt \/ CommitFault
    BY <2>4 DEF WriteMarker, Validate, UnlinkSegment, UnlinkMarker, RefuseCorrupt,
                CommitFault, AbandonGroup, disk, Sink!sinkVars
  <2>5. CASE WorkerExit \/ RequestStop \/ Crash \/ Restart \/ UNCHANGED vars
    BY <2>5 DEF WorkerExit, RequestStop, Crash, Restart, vars, disk, Sink!sinkVars
  <2>6. QED
    BY <2>1, <2>2, <2>3, <2>4, <2>5 DEF Next, WorkerStep, Sink!Next
<1>3. QED
  BY SpoolInvariant, <1>1, <1>2, PTL DEF Safety, Sink!Safety
================================================================================
