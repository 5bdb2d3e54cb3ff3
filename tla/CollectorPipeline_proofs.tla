----------------------- MODULE CollectorPipeline_proofs -----------------------
(***************************************************************************)
(* Proofs about CollectorPipeline, for any trips, values and auxiliary     *)
(* states, and every bound on polls, days, faults and restarts.            *)
(***************************************************************************)
EXTENDS CollectorPipeline, TLAPS

--------------------------------------------------------------------------------
(* The inductive invariant *)

\* What has been selected is exactly what the memory of the tracker lacks, and what
\* has been staged completes the snapshot.  A response without payload is not parsed.
SelectionInv ==
  /\ trackDay <= day
  /\ pc = "gap" => ~Parses(input)
  /\ pc = "stage" =>
       /\ trackDay = day
       /\ emitted = {t \in Present(input.snapshot) : input.snapshot[t] # last[t]}
  /\ pc \in {"fallback", "health", "journal"} /\ Parses(input) /\ trackingOk /\ spoolOk
       => Consistent(input)

\* As long as a membership is known, the last record is that of the poll before.
PresenceInv ==
  /\ presenceDay <= day
  /\ observing /\ presenceDay = day =>
       presenceLog.poll + (IF pc \in {"gap", "raw", "parse", "auxiliary", "presence"}
                           THEN 1 ELSE 0) = poll

\* Archived means readable, with the auxiliary state; no log of a later date exists.
RawInv ==
  /\ \A d \in Days : d > day => rawTail[d] = "missing"
  /\ rawArchived => rawHas /\ AuxOf(input) \subseteq rawAux
  /\ pc \in {"presence", "filter", "stage", "fallback", "health", "journal"}
        /\ Parses(input) /\ rawOk
       => input.aux \in rawAux

IInv ==
  /\ TypeOK
  /\ TrackerBacked /\ PresenceReplayable /\ TornTailsMarked /\ AuxiliaryArchived
  /\ SelectionInv /\ PresenceInv /\ RawInv

\* What has gone wrong with the response in hand, the response itself included.
Mishaps == pollFaults + (IF input.kind = "full" THEN 0 ELSE 1)

\* The event of a poll comes last, and a response without payload goes no further
\* than the gap.
OrderInv ==
  /\ event.poll <= poll
  /\ pc \notin {"idle", "lastResort", "down"} => event.poll < poll
  /\ pc \in {"gap", "down"} => input.kind = "lost"
  /\ pc \in {"raw", "parse", "fallback", "health", "lastResort"} => input.kind # "lost"
  /\ pc \in {"auxiliary", "presence", "filter", "stage"} => Parses(input)
  /\ input.kind = "full" => trackingOk /\ (pollFaults = 0 => presenceOk /\ spoolOk)
  /\ pc = "lastResort" => pollFaults > 0

\* The flags of the poll in hand say what is on disk, from the step that sets them
\* until the next poll.
FlagsInv ==
  /\ pc \in {"filter", "stage", "fallback", "health", "journal", "lastResort", "idle"}
        /\ input.kind # "lost" /\ presenceOk
       => /\ Parses(input)
          /\ presenceLog.poll = poll /\ presenceLog.members = Present(input.snapshot)
  /\ pc \in {"fallback", "health", "journal", "lastResort", "idle"}
        /\ Parses(input) /\ trackingOk
       => /\ emitted \subseteq Present(input.snapshot)
          /\ spoolOk => Consistent(input)

\* Once the fallback is over the response can be had again, unless raw_ok is false
\* and two things went wrong; what its event claims stays true.
EvidenceInv ==
  /\ pc \in {"health", "journal"} /\ input.kind # "lost" /\ (rawOk \/ Mishaps <= 1)
       => Reconstructible
  /\ pc \in {"lastResort", "idle"} /\ input.kind # "lost" =>
       /\ Mishaps <= 1 => Reconstructible
       /\ event.poll = poll => /\ event.rawOk => Reconstructible
                               /\ event.rawArchived => rawHas
                               /\ event.presenceOk => presenceOk
                               /\ event.emitted \subseteq EmittedRows
  /\ pc = "idle" /\ input.kind # "lost" /\ Mishaps <= 1
       => rawHas \/ event.poll = poll \/ raised

--------------------------------------------------------------------------------
\* A new process that has processed nothing yet is well typed.
LEMMA InitTyped == Init => TypeOK
<1> SUFFICES ASSUME Init PROVE TypeOK
  OBVIOUS
<1>1. /\ observing \in BOOLEAN /\ raised \in BOOLEAN /\ rawHas \in BOOLEAN
      /\ rawArchived \in BOOLEAN /\ rawOk \in BOOLEAN
      /\ presenceOk \in BOOLEAN /\ trackingOk \in BOOLEAN /\ spoolOk \in BOOLEAN
  BY Zenon DEF Init
<1>2. /\ poll \in 0..MaxPolls /\ day \in Days /\ toDrain \in 0..Running
      /\ trackDay \in 0..MaxDay /\ presenceDay \in 0..MaxDay
      /\ faults \in 0..MaxFaults /\ pollFaults \in 0..faults
      /\ restarts \in 0..MaxRestarts
  BY PipelineAssumption DEF Init, Days, Running, None
<1>3. last \in Snapshots /\ staged \in Snapshots
  BY DEF Init, Nothing, Snapshots
<1>4. input \in Responses
  BY DEF Init, NoResponse, Responses
<1>5. presenceLog \in [kind : {"none", "baseline", "delta"}, poll : 0..MaxPolls,
                       members : SUBSET Trips, valid : BOOLEAN]
  BY PipelineAssumption DEF Init, EmptyLog
<1>6. event \in [poll : 0..MaxPolls, rawArchived : BOOLEAN, rawOk : BOOLEAN,
                 presenceOk : BOOLEAN, emitted : SUBSET Trips]
  BY PipelineAssumption DEF Init, NoEvent
<1>7. pc = "idle" /\ emitted = {} /\ members = {} /\ auxSignature = None
      /\ needsRepair = {} /\ rawAux = {} /\ rawTail \in [Days -> {"missing", "clean", "torn"}]
  BY DEF Init
<1>8. QED
  BY <1>1, <1>2, <1>3, <1>4, <1>5, <1>6, <1>7 DEF TypeOK

\* A snapshot of what a response says, and nothing else, has the type of one.
LEMMA ResponseTyped ==
  ASSUME NEW r \in Responses
  PROVE  /\ r.snapshot \in Snapshots
         /\ AuxOf(r) \subseteq Auxiliary
         /\ Parses(r) => r.aux \in Auxiliary
BY DEF Responses, Snapshots, Nothing, AuxOf, Parses

\* At midnight the files of the new date are empty; otherwise nothing changes.
LEMMA RollOverTyped ==
  ASSUME TypeOK, MayRollOver
  PROVE  /\ day' \in Days /\ staged' \in Snapshots
         /\ presenceLog' \in [kind : {"none", "baseline", "delta"}, poll : 0..MaxPolls,
                              members : SUBSET Trips, valid : BOOLEAN]
<1>1. CASE UNCHANGED <<day, staged, presenceLog>>
  BY <1>1 DEF TypeOK
<1>2. CASE day < MaxDay /\ day' = day + 1 /\ staged' = Nothing /\ presenceLog' = EmptyLog
  <2>1. day' \in Days
    BY <1>2, PipelineAssumption DEF TypeOK, Days
  <2>2. QED
    BY <1>2, <2>1, PipelineAssumption DEF Nothing, Snapshots, EmptyLog
<1>3. QED
  BY <1>1, <1>2 DEF MayRollOver

\* An injected fault stays within its bound.
LEMMA FaultTyped ==
  ASSUME TypeOK, Fault
  PROVE  faults' \in 0..MaxFaults /\ pollFaults' \in 0..faults'
BY PipelineAssumption DEF TypeOK, Fault

\* Repairing a set of logs yields a state of every log again.
LEMMA RepairTyped ==
  ASSUME TypeOK, NEW dates
  PROVE  Repaired(dates) \in [Days -> {"missing", "clean", "torn"}]
BY DEF TypeOK, Repaired

\* An append, complete or cut short, only changes how today's log ends.
LEMMA AppendTyped ==
  ASSUME TypeOK, NEW tail \in [Days -> {"missing", "clean", "torn"}],
         Append(tail) \/ BreakAppend(tail)
  PROVE  /\ rawTail' \in [Days -> {"missing", "clean", "torn"}]
         /\ rawHas' \in BOOLEAN
         /\ rawAux' \subseteq Auxiliary
<1>1. AuxOf(input) \subseteq Auxiliary /\ rawAux \subseteq Auxiliary /\ rawHas \in BOOLEAN
  BY ResponseTyped DEF TypeOK
<1>2. rawTail' \in [Days -> {"missing", "clean", "torn"}]
  BY DEF Append, BreakAppend
<1>3. rawAux' \subseteq Auxiliary
  BY <1>1 DEF Append, BreakAppend
<1>4. rawHas' \in BOOLEAN
  BY Zenon, <1>1 DEF Append, BreakAppend
<1>5. QED
  BY <1>2, <1>3, <1>4

\* _archive_raw keeps the types of everything it touches.
LEMMA ArchiveTyped ==
  ASSUME TypeOK, Archive
  PROVE  /\ rawTail' \in [Days -> {"missing", "clean", "torn"}]
         /\ rawHas' \in BOOLEAN /\ rawArchived' \in BOOLEAN /\ rawOk' \in BOOLEAN
         /\ rawAux' \subseteq Auxiliary /\ needsRepair' \subseteq Days
         /\ faults' \in 0..MaxFaults /\ pollFaults' \in 0..faults'
<1>1. PICK repaired \in SUBSET needsRepair :
        \/ /\ IF needsRepair \ repaired = {} THEN UNCHANGED counts ELSE Fault
           /\ day \notin needsRepair \ repaired
           /\ Append(Repaired(repaired))
           /\ rawArchived' = TRUE /\ rawOk' = TRUE
           /\ needsRepair' = needsRepair \ repaired
        \/ /\ Fault
           /\ IF day \in needsRepair \ repaired
              THEN rawTail' = Repaired(repaired) /\ UNCHANGED <<rawHas, rawAux>>
              ELSE BreakAppend(Repaired(repaired))
           /\ rawArchived' = FALSE /\ rawOk' = FALSE
           /\ needsRepair' = (needsRepair \ repaired) \cup {day}
  BY Zenon DEF Archive
<1>2. Repaired(repaired) \in [Days -> {"missing", "clean", "torn"}]
  BY RepairTyped
<1>3. faults' \in 0..MaxFaults /\ pollFaults' \in 0..faults'
  <2>1. CASE Fault
    BY <2>1, FaultTyped
  <2>2. CASE UNCHANGED counts
    BY <2>2 DEF TypeOK, counts
  <2>3. QED
    BY <1>1, <2>1, <2>2
<1>4. needsRepair' \subseteq Days
  BY <1>1 DEF TypeOK
<1>5. rawArchived' \in BOOLEAN /\ rawOk' \in BOOLEAN
  BY Zenon, <1>1
<1>6. /\ rawTail' \in [Days -> {"missing", "clean", "torn"}]
      /\ rawHas' \in BOOLEAN /\ rawAux' \subseteq Auxiliary
  <2>1. CASE Append(Repaired(repaired)) \/ BreakAppend(Repaired(repaired))
    BY <1>2, <2>1, AppendTyped
  <2>2. CASE rawTail' = Repaired(repaired) /\ UNCHANGED <<rawHas, rawAux>>
    BY <1>2, <2>2 DEF TypeOK
  <2>3. QED
    BY <1>1, <2>1, <2>2
<1>7. QED
  BY <1>3, <1>4, <1>5, <1>6

\* What observe() writes is a record of the log.
LEMMA ObserveTyped ==
  ASSUME TypeOK, Observe
  PROVE  /\ presenceDay' \in 0..MaxDay /\ members' \subseteq Trips
         /\ observing' \in BOOLEAN /\ presenceOk' \in BOOLEAN
         /\ presenceLog' \in [kind : {"none", "baseline", "delta"}, poll : 0..MaxPolls,
                              members : SUBSET Trips, valid : BOOLEAN]
         /\ faults' \in 0..MaxFaults /\ pollFaults' \in 0..faults'
<1> DEFINE current == Present(input.snapshot)
           previous == IF Known THEN members ELSE {}
           record == Replay(~Known, current \ previous, previous \ current)
<1>1. current \subseteq Trips /\ previous \subseteq Trips /\ presenceLog.members \subseteq Trips
  BY DEF TypeOK, Present
<1>2. \/ /\ presenceLog' = record /\ observing' = TRUE /\ members' = current
         /\ UNCHANGED <<presenceOk, counts>>
      \/ /\ Fault /\ presenceLog' \in {presenceLog, record}
         /\ observing' = FALSE /\ members' = {} /\ presenceOk' = FALSE
  BY Zenon DEF Observe
<1>3. presenceDay' = day
  BY Zenon DEF Observe
<1>4. record \in [kind : {"none", "baseline", "delta"}, poll : 0..MaxPolls,
                  members : SUBSET Trips, valid : BOOLEAN]
  <2> HIDE DEF current, previous
  <2>1. poll \in 0..MaxPolls
    BY DEF TypeOK
  <2>2. ASSUME NEW b, NEW entered \in SUBSET Trips, NEW withdrawn
        PROVE  Replay(b, entered, withdrawn) \in
                 [kind : {"none", "baseline", "delta"}, poll : 0..MaxPolls,
                  members : SUBSET Trips, valid : BOOLEAN]
    <3> DEFINE old == IF b THEN {} ELSE presenceLog.members
               ok == /\ b \/ presenceLog.valid
                     /\ entered \cap old = {}
                     /\ withdrawn \subseteq old
    <3>1. (old \ withdrawn) \cup entered \subseteq Trips
      BY <1>1
    <3>2. ok \in BOOLEAN
      BY Zenon
    <3>3. (IF b THEN "baseline" ELSE "delta") \in {"none", "baseline", "delta"}
      OBVIOUS
    <3> HIDE DEF ok
    <3>4. Replay(b, entered, withdrawn) =
            [kind |-> IF b THEN "baseline" ELSE "delta", poll |-> poll,
             members |-> (old \ withdrawn) \cup entered, valid |-> ok]
      BY Zenon DEF Replay, ok
    <3>5. QED
      BY <2>1, <3>1, <3>2, <3>3, <3>4
  <2>3. QED
    BY <1>1, <2>2
<1> HIDE DEF current, previous, record
<1>5. presenceLog' \in [kind : {"none", "baseline", "delta"}, poll : 0..MaxPolls,
                        members : SUBSET Trips, valid : BOOLEAN]
  BY <1>2, <1>4 DEF TypeOK
<1>6. faults' \in 0..MaxFaults /\ pollFaults' \in 0..faults'
  <2>1. CASE Fault
    BY <2>1, FaultTyped
  <2>2. CASE UNCHANGED counts
    BY <2>2 DEF TypeOK, counts
  <2>3. QED
    BY <1>2, <2>1, <2>2
<1>7. observing' \in BOOLEAN /\ presenceOk' \in BOOLEAN
  BY Zenon, <1>2 DEF TypeOK
<1>8. presenceDay' \in 0..MaxDay
  BY <1>3 DEF TypeOK, Days
<1>9. QED
  BY <1>1, <1>2, <1>5, <1>6, <1>7, <1>8

\* Adding the rows of the selected trips gives a snapshot again.
LEMMA WithTyped ==
  ASSUME TypeOK, NEW rows \in Snapshots
  PROVE  With(rows) \in Snapshots
BY ResponseTyped DEF TypeOK, With, Snapshots

\* A forced or a scheduled attempt, made or not, keeps the types.
LEMMA ForceTyped ==
  ASSUME TypeOK, NEW needed, ForceArchive(needed)
  PROVE  /\ rawTail' \in [Days -> {"missing", "clean", "torn"}]
         /\ rawHas' \in BOOLEAN /\ rawArchived' \in BOOLEAN /\ rawOk' \in BOOLEAN
         /\ rawAux' \subseteq Auxiliary /\ needsRepair' \subseteq Days
         /\ faults' \in 0..MaxFaults /\ pollFaults' \in 0..faults'
<1>1. CASE Archive
  BY <1>1, ArchiveTyped
<1>2. CASE UNCHANGED <<rawLog, rawArchived, rawOk, counts>>
  BY <1>2 DEF TypeOK, rawLog, counts
<1>3. QED
  BY <1>1, <1>2 DEF ForceArchive

\* The event repeats what the poll found out.
LEMMA EventTyped ==
  ASSUME TypeOK
  PROVE  PollEvent \in [poll : 0..MaxPolls, rawArchived : BOOLEAN, rawOk : BOOLEAN,
                        presenceOk : BOOLEAN, emitted : SUBSET Trips]
BY DEF TypeOK, PollEvent, EmittedRows

\* Nothing is known of the membership after a gap.
LEMMA InvalidateTyped ==
  ASSUME TypeOK, Invalidate
  PROVE  observing' \in BOOLEAN /\ members' \subseteq Trips /\ presenceDay' \in 0..MaxDay
BY DEF TypeOK, Invalidate

\* Every step of the pipeline, and every crash and restart, keeps the types.
LEMMA NextTyped == TypeOK /\ [Next]_vars => TypeOK'
<1> SUFFICES ASSUME TypeOK, [Next]_vars PROVE TypeOK'
  OBVIOUS
<1> USE DEF result, tracker, known, rawLog, counts
<1>1. CASE Receive
  <2>1. /\ day' \in Days /\ staged' \in Snapshots
        /\ presenceLog' \in [kind : {"none", "baseline", "delta"}, poll : 0..MaxPolls,
                             members : SUBSET Trips, valid : BOOLEAN]
    BY <1>1, RollOverTyped DEF Receive
  <2>2. poll' \in 0..MaxPolls /\ toDrain' \in 0..Running
    BY <1>1, PipelineAssumption DEF Receive, NextPoll, Running, TypeOK
  <2>3. pollFaults' \in 0..faults'
    BY <1>1, PipelineAssumption DEF Receive, TypeOK
  <2>4. QED
    BY <1>1, <2>1, <2>2, <2>3 DEF Receive, FreshResult, TypeOK
<1>2. CASE WorkerError
  <2>1. poll' \in 0..MaxPolls /\ toDrain' \in 0..Running
    BY <1>2, PipelineAssumption DEF WorkerError, NextPoll, Running, TypeOK
  <2>2. pollFaults' \in 0..faults'
    BY <1>2, PipelineAssumption DEF WorkerError, TypeOK
  <2>3. input' \in Responses
    BY <1>2 DEF WorkerError, NoResponse, Responses
  <2>4. QED
    BY ZenonT(60), <1>2, <2>1, <2>2, <2>3 DEF WorkerError, Invalidate, FreshResult, TypeOK
<1>3. CASE Gap
  <2>1. presenceOk' \in BOOLEAN
    BY Zenon, <1>3 DEF Gap
  <2>2. observing' \in BOOLEAN /\ members' \subseteq Trips /\ presenceDay' \in 0..MaxDay
    BY <1>3, InvalidateTyped DEF Gap
  <2>3. QED
    BY <1>3, <2>1, <2>2 DEF Gap, TypeOK
<1>4. CASE ArchiveRaw
  <2>1. CASE Archive
    BY <1>4, <2>1, ArchiveTyped DEF ArchiveRaw, TypeOK
  <2>2. CASE UNCHANGED <<rawLog, rawArchived, rawOk, counts>>
    BY <1>4, <2>2 DEF ArchiveRaw, TypeOK
  <2>3. QED
    BY <1>4, <2>1, <2>2 DEF ArchiveRaw
<1>5. CASE Parse
  <2>1. presenceOk' \in BOOLEAN
    BY Zenon, <1>5 DEF Parse, TypeOK
  <2>2. observing' \in BOOLEAN /\ members' \subseteq Trips /\ presenceDay' \in 0..MaxDay
    <3>1. CASE Invalidate
      BY <3>1, InvalidateTyped
    <3>2. CASE UNCHANGED known
      BY <3>2 DEF TypeOK
    <3>3. QED
      BY <1>5, <3>1, <3>2 DEF Parse
  <2>3. QED
    BY <1>5, <2>1, <2>2 DEF Parse, TypeOK
<1>6. CASE ArchiveAuxiliary
  BY <1>6, ForceTyped DEF ArchiveAuxiliary, TypeOK
<1>7. CASE Presence
  <2>1. CASE Observe
    BY <1>7, <2>1, ObserveTyped DEF Presence, TypeOK
  <2>2. CASE Invalidate /\ presenceOk' = FALSE /\ UNCHANGED <<presenceLog, counts>>
    <3>1. presenceOk' \in BOOLEAN
      BY Zenon, <2>2
    <3>2. observing' \in BOOLEAN /\ members' \subseteq Trips /\ presenceDay' \in 0..MaxDay
      BY <2>2, InvalidateTyped
    <3>3. QED
      BY <1>7, <2>2, <3>1, <3>2 DEF Presence, TypeOK
  <2>3. QED
    BY <1>7, <2>1, <2>2 DEF Presence
<1>8. CASE Filter
  <2>1. last' \in Snapshots
    BY <1>8 DEF Filter, Remembered, TypeOK, Snapshots
  <2>2. emitted' \subseteq Trips
    BY <1>8 DEF Filter, Present, TypeOK
  <2>3. trackDay' \in 0..MaxDay
    BY <1>8 DEF Filter, TypeOK, Days
  <2>4. trackingOk' \in BOOLEAN
    BY Zenon, <1>8 DEF Filter, TypeOK
  <2>5. QED
    BY <1>8, <2>1, <2>2, <2>3, <2>4 DEF Filter, TypeOK
<1>9. CASE Stage
  <2>1. With(last) \in Snapshots /\ With(staged) \in Snapshots
    BY WithTyped DEF TypeOK
  <2>2. last' \in Snapshots /\ staged' \in Snapshots
    BY <1>9, <2>1 DEF Stage, TypeOK
  <2>3. faults' \in 0..MaxFaults /\ pollFaults' \in 0..faults'
    <3>1. CASE Fault
      BY <3>1, FaultTyped
    <3>2. CASE UNCHANGED counts
      BY <3>2 DEF TypeOK
    <3>3. QED
      BY <1>9, <3>1, <3>2 DEF Stage
  <2>4. spoolOk' \in BOOLEAN
    BY Zenon, <1>9 DEF Stage, TypeOK
  <2>5. QED
    BY <1>9, <2>2, <2>3, <2>4 DEF Stage, TypeOK
<1>10. CASE Fallback
  <2>1. auxSignature' \in Auxiliary \cup {None}
    BY <1>10, ResponseTyped DEF Fallback, Signature, TypeOK
  <2>2. QED
    BY <1>10, <2>1, ForceTyped DEF Fallback, TypeOK
<1>11. CASE RecordSuccess
  BY <1>11 DEF RecordSuccess, TypeOK
<1>12. CASE UnexpectedFailure
  <2>1. observing' \in BOOLEAN /\ members' \subseteq Trips /\ presenceDay' = presenceDay
    BY <1>12 DEF UnexpectedFailure, Invalidate, TypeOK
  <2>2. QED
    BY <1>12, <2>1, FaultTyped DEF UnexpectedFailure, TypeOK
<1>13. CASE Journal
  BY <1>13, EventTyped DEF Journal, TypeOK
<1>14. CASE JournalFailure
  BY <1>14, EventTyped, FaultTyped DEF JournalFailure, TypeOK
<1>15. CASE LastResort
  <2>1. ForceArchive(TRUE)
    BY <1>15 DEF LastResort
  <2>2. /\ rawTail' \in [Days -> {"missing", "clean", "torn"}]
        /\ rawHas' \in BOOLEAN /\ rawArchived' \in BOOLEAN /\ rawOk' \in BOOLEAN
        /\ rawAux' \subseteq Auxiliary /\ needsRepair' \subseteq Days
        /\ faults' \in 0..MaxFaults /\ pollFaults' \in 0..faults'
    BY <2>1, ForceTyped
  <2>3. QED
    BY <1>15, <2>2 DEF LastResort, TypeOK
<1>16. CASE Stop
  BY <1>16 DEF Stop, TypeOK, Running
<1>17. CASE Die
  <2>1. /\ rawTail' \in [Days -> {"missing", "clean", "torn"}]
        /\ rawHas' \in BOOLEAN /\ rawAux' \subseteq Auxiliary
    <3>1. CASE UNCHANGED <<rawTail, rawHas, rawAux>>
      BY <3>1 DEF TypeOK
    <3>2. ASSUME NEW repaired, BreakAppend(Repaired(repaired))
          PROVE  /\ rawTail' \in [Days -> {"missing", "clean", "torn"}]
                 /\ rawHas' \in BOOLEAN /\ rawAux' \subseteq Auxiliary
      BY <3>2, RepairTyped, AppendTyped
    <3>3. QED
      BY <1>17, <3>1, <3>2 DEF Die
  <2>2. input' \in Responses /\ last' \in Snapshots
    BY <1>17 DEF Die, FreshMemory, NoResponse, Nothing, Responses, Snapshots
  <2>3. toDrain' \in 0..Running /\ pollFaults' \in 0..faults'
        /\ trackDay' \in 0..MaxDay /\ presenceDay' \in 0..MaxDay
    BY <1>17, PipelineAssumption DEF Die, FreshMemory, Running, None, TypeOK
  <2>4. QED
    BY <1>17, <2>1, <2>2, <2>3 DEF Die, FreshMemory, FreshResult, TypeOK
<1>18. CASE Restart
  <2>1. /\ day' \in Days /\ staged' \in Snapshots
        /\ presenceLog' \in [kind : {"none", "baseline", "delta"}, poll : 0..MaxPolls,
                             members : SUBSET Trips, valid : BOOLEAN]
    BY <1>18, RollOverTyped DEF Restart
  <2>2. /\ rawTail' \in [Days -> {"missing", "clean", "torn"}]
        /\ needsRepair' \subseteq Days
        /\ Fault \/ UNCHANGED counts
    <3>1. PICK repaired \in SUBSET RecentRawLogs(day') :
            /\ needsRepair' = RecentRawLogs(day') \ repaired
            /\ rawTail' = Repaired(repaired)
            /\ IF needsRepair' = {} THEN UNCHANGED counts ELSE Fault
      BY Zenon, <1>18 DEF Restart
    <3>2. RecentRawLogs(day') \subseteq Days
      BY DEF RecentRawLogs
    <3>3. QED
      BY <3>1, <3>2, RepairTyped
  <2>3. faults' \in 0..MaxFaults /\ pollFaults' \in 0..faults'
    <3>1. CASE Fault
      BY <3>1, FaultTyped
    <3>2. CASE UNCHANGED counts
      BY <3>2 DEF TypeOK
    <3>3. QED
      BY <2>2, <3>1, <3>2
  <2>4. restarts' \in 0..MaxRestarts
    BY <1>18, PipelineAssumption DEF Restart, TypeOK
  <2>5. QED
    BY <1>18, <2>1, <2>2, <2>3, <2>4 DEF Restart, TypeOK
<1>19. CASE UNCHANGED vars
  BY <1>19 DEF vars, TypeOK
<1>20. QED
  BY <1>1, <1>2, <1>3, <1>4, <1>5, <1>6, <1>7, <1>8, <1>9, <1>10, <1>11, <1>12, <1>13,
     <1>14, <1>15, <1>16, <1>17, <1>18, <1>19
  DEF Next

--------------------------------------------------------------------------------
(* The tracker and the staged rows *)

\* Whatever a poll does, the tracker's memory stays backed by staged rows, and its
\* selection completes the snapshot.
LEMMA NextTracked ==
  TypeOK /\ TrackerBacked /\ SelectionInv /\ [Next]_vars => TrackerBacked' /\ SelectionInv'
<1> SUFFICES ASSUME TypeOK, TrackerBacked, SelectionInv, [Next]_vars
             PROVE  TrackerBacked' /\ SelectionInv'
  OBVIOUS
<1> DEFINE Quiet == UNCHANGED <<day, last, trackDay, staged>>
<1>0. day \in Nat \ {0} /\ trackDay \in Nat /\ last \in Snapshots /\ staged \in Snapshots
  BY PipelineAssumption DEF TypeOK, Days
<1>1. ASSUME Quiet, pc' \notin {"gap", "stage", "fallback", "health", "journal"}
      PROVE  TrackerBacked' /\ SelectionInv'
  BY <1>1 DEF TrackerBacked, SelectionInv, Present
<1>2. ASSUME Quiet, UNCHANGED <<input, trackingOk, spoolOk>>,
             pc \in {"fallback", "health", "journal"}, pc' \notin {"gap", "stage"}
      PROVE  TrackerBacked' /\ SelectionInv'
  BY <1>2 DEF TrackerBacked, SelectionInv, Present, Consistent, Parses
<1>3. ASSUME MayRollOver, pc' \notin {"stage", "fallback", "health", "journal"},
             pc' = "gap" => ~Parses(input'), UNCHANGED tracker
      PROVE  TrackerBacked' /\ SelectionInv'
  <2>1. CASE UNCHANGED <<day, staged, presenceLog>>
    BY <1>3, <2>1 DEF tracker, TrackerBacked, SelectionInv, Present, Parses
  <2>2. CASE day' = day + 1
    BY <1>0, <1>3, <2>2 DEF TrackerBacked, SelectionInv, tracker, Parses
  <2>3. QED
    BY <1>3, <2>1, <2>2 DEF MayRollOver
<1>4. CASE Receive \/ Restart
  BY <1>3, <1>4 DEF Receive, Restart, Parses
<1>5. CASE WorkerError
  BY <1>1, <1>5 DEF WorkerError, NextPoll, tracker
<1>6. CASE Gap
  BY <1>6 DEF Gap, tracker, TrackerBacked, SelectionInv, Present, Parses
<1>7. CASE ArchiveRaw \/ ArchiveAuxiliary \/ Presence
  BY <1>1, <1>7 DEF ArchiveRaw, ArchiveAuxiliary, Presence, tracker
<1>8. CASE Parse
  BY <1>8 DEF Parse, tracker, TrackerBacked, SelectionInv, Present, Parses
<1>9. CASE Filter
  <2>1. PICK kept \in SUBSET Trips : last' = Remembered(kept)
    BY <1>9 DEF Filter
  <2>2. UNCHANGED <<day, staged, input>> /\ trackDay' = day
    BY <1>9 DEF Filter
  <2>3. TrackerBacked'
    BY <2>1, <2>2 DEF TrackerBacked, Remembered, Present
  <2>4. CASE input.kind = "silent"
    BY <1>0, <1>9, <2>2, <2>3, <2>4 DEF Filter, SelectionInv
  <2>5. CASE input.kind # "silent"
    <3>1. pc' = "stage"
          /\ emitted' = {t \in Present(input.snapshot) : input.snapshot[t] # last'[t]}
      BY <1>9, <2>5 DEF Filter
    <3>2. QED
      BY <1>0, <2>2, <2>3, <3>1 DEF SelectionInv, Present
  <2>6. QED
    BY <2>4, <2>5
<1>10. CASE Stage
  <2>1. UNCHANGED <<day, trackDay, input, emitted>> /\ pc = "stage" /\ pc' = "fallback"
    BY <1>10 DEF Stage
  <2>2. trackDay = day
        /\ emitted = {t \in Present(input.snapshot) : input.snapshot[t] # last[t]}
    BY <2>1 DEF SelectionInv
  <2>3. CASE staged' = With(staged) /\ last' = With(last)
    <3>1. \A t \in Trips : last'[t] # Absent => staged'[t] = last'[t]
      BY <2>2, <2>3 DEF With, TrackerBacked, Present
    <3>2. \A t \in Present(input.snapshot) : staged'[t] = input.snapshot[t]
      BY <2>2, <2>3 DEF With, TrackerBacked, Present
    <3>3. QED
      BY <1>0, <2>1, <3>1, <3>2 DEF TrackerBacked, SelectionInv, Consistent, Present
  <2>4. CASE spoolOk' = FALSE /\ UNCHANGED <<staged, last>>
    BY <1>0, <2>1, <2>4 DEF TrackerBacked, SelectionInv, Present
  <2>5. QED
    BY <1>10, <2>3, <2>4 DEF Stage
<1>11. CASE Fallback \/ RecordSuccess \/ UnexpectedFailure \/ Journal \/ JournalFailure
  BY <1>2, <1>11
  DEF Fallback, RecordSuccess, UnexpectedFailure, Journal, JournalFailure, tracker, result
<1>12. CASE LastResort \/ Stop
  BY <1>1, <1>12 DEF LastResort, Stop, tracker
<1>13. CASE Die
  <2>1. UNCHANGED <<day, staged>> /\ pc' = "down" /\ trackDay' = 0
    BY <1>13 DEF Die, FreshMemory, None
  <2>2. QED
    BY <1>0, <2>1 DEF TrackerBacked, SelectionInv
<1>14. CASE UNCHANGED vars
  BY <1>14 DEF vars, tracker, result, TrackerBacked, SelectionInv, Present, Consistent, Parses
<1>15. QED
  BY <1>4, <1>5, <1>6, <1>7, <1>8, <1>9, <1>10, <1>11, <1>12, <1>13, <1>14 DEF Next

--------------------------------------------------------------------------------
(* The presence log *)

\* A poll either extends the log by a record that its replay accepts, or forgets
\* the membership.
LEMMA NextObserved ==
  TypeOK /\ PresenceReplayable /\ PresenceInv /\ [Next]_vars
    => PresenceReplayable' /\ PresenceInv'
<1> SUFFICES ASSUME TypeOK, PresenceReplayable, PresenceInv, [Next]_vars
             PROVE  PresenceReplayable' /\ PresenceInv'
  OBVIOUS
<1> DEFINE Before == {"gap", "raw", "parse", "auxiliary", "presence"}
<1>0. day \in Nat \ {0} /\ presenceDay \in Nat /\ poll \in Nat /\ presenceLog.poll \in Nat
  BY PipelineAssumption DEF TypeOK, Days
<1>1. ASSUME UNCHANGED <<day, known, presenceLog, poll>>, pc \in Before <=> pc' \in Before
      PROVE  PresenceReplayable' /\ PresenceInv'
  BY <1>1 DEF PresenceReplayable, PresenceInv, known
<1>2. ASSUME UNCHANGED <<day, presenceLog>>, Invalidate
      PROVE  PresenceReplayable' /\ PresenceInv'
  BY <1>2 DEF PresenceReplayable, PresenceInv, Invalidate
<1>3. CASE Receive
  <2>1. UNCHANGED known /\ poll' = poll + 1 /\ pc = "idle" /\ pc' \in Before
    BY <1>3 DEF Receive, NextPoll
  <2>2. CASE UNCHANGED <<day, staged, presenceLog>>
    BY <1>0, <2>1, <2>2 DEF PresenceReplayable, PresenceInv, known
  <2>3. CASE day' = day + 1 /\ presenceLog' = EmptyLog
    BY <1>0, <2>1, <2>3 DEF PresenceReplayable, PresenceInv, known, EmptyLog
  <2>4. QED
    BY <1>3, <2>2, <2>3 DEF Receive, MayRollOver
<1>4. CASE WorkerError
  BY <1>2, <1>4 DEF WorkerError
<1>5. CASE Gap
  BY <1>2, <1>5 DEF Gap
<1>6. CASE ArchiveRaw \/ ArchiveAuxiliary
  BY <1>1, <1>6 DEF ArchiveRaw, ArchiveAuxiliary
<1>7. CASE Parse
  <2>1. CASE Invalidate
    BY <1>2, <1>7, <2>1 DEF Parse
  <2>2. CASE UNCHANGED known /\ pc' = "auxiliary"
    BY <1>1, <1>7, <2>2 DEF Parse
  <2>3. QED
    BY <1>7, <2>1, <2>2 DEF Parse
<1>8. CASE Presence
  <2>1. UNCHANGED <<day, poll>> /\ pc = "presence" /\ pc' = "filter"
    BY <1>8 DEF Presence
  <2>2. CASE Invalidate /\ UNCHANGED presenceLog
    BY <1>2, <2>1, <2>2
  <2>3. CASE Observe
    <3> DEFINE current == Present(input.snapshot)
               previous == IF Known THEN members ELSE {}
               record == Replay(~Known, current \ previous, previous \ current)
    <3>1. \/ presenceLog' = record /\ observing' = TRUE /\ members' = current
          \/ presenceLog' \in {presenceLog, record} /\ observing' = FALSE /\ members' = {}
      BY Zenon, <2>3 DEF Observe
    <3>2. presenceDay' = day
      BY Zenon, <2>3 DEF Observe
    <3>3. record.poll = poll /\ record.members = current /\ record.valid
      <4>1. CASE Known
        <5>1. presenceLog.members = members /\ presenceLog.valid
          BY <4>1 DEF Known, PresenceReplayable
        <5> HIDE DEF current
        <5>2. previous = members
          BY <4>1
        <5> HIDE DEF previous
        <5>3. QED
          BY <4>1, <5>1, <5>2 DEF Replay
      <4>2. CASE ~Known
        <5> HIDE DEF current
        <5>1. previous = {}
          BY <4>2
        <5> HIDE DEF previous
        <5>2. QED
          BY <4>2, <5>1 DEF Replay
      <4>3. QED
        BY <4>1, <4>2
    <3> HIDE DEF current, previous, record
    <3>4. QED
      BY <1>0, <2>1, <3>1, <3>2, <3>3 DEF PresenceReplayable, PresenceInv
  <2>4. QED
    BY <1>8, <2>2, <2>3 DEF Presence
<1>9. CASE Filter \/ Stage \/ Fallback \/ RecordSuccess \/ Journal \/ JournalFailure
           \/ LastResort \/ Stop
  BY <1>1, <1>9
  DEF Filter, Stage, Fallback, RecordSuccess, Journal, JournalFailure, LastResort, Stop
<1>10. CASE UnexpectedFailure
  <2>1. CASE Invalidate
    BY <1>2, <1>10, <2>1 DEF UnexpectedFailure
  <2>2. CASE UNCHANGED known
    BY <1>1, <1>10, <2>2 DEF UnexpectedFailure
  <2>3. QED
    BY <1>10, <2>1, <2>2 DEF UnexpectedFailure
<1>11. CASE Die
  BY <1>0, <1>11 DEF Die, FreshMemory, None, PresenceReplayable, PresenceInv
<1>12. CASE Restart
  <2>1. UNCHANGED <<known, poll>> /\ pc = "down" /\ pc' = "idle"
    BY <1>12 DEF Restart
  <2>2. CASE UNCHANGED <<day, staged, presenceLog>>
    BY <1>1, <2>1, <2>2
  <2>3. CASE day' = day + 1 /\ presenceLog' = EmptyLog
    BY <1>0, <2>1, <2>3 DEF PresenceReplayable, PresenceInv, known, EmptyLog
  <2>4. QED
    BY <1>12, <2>2, <2>3 DEF Restart, MayRollOver
<1>13. CASE UNCHANGED vars
  BY <1>1, <1>13 DEF vars
<1>14. QED
  BY <1>3, <1>4, <1>5, <1>6, <1>7, <1>8, <1>9, <1>10, <1>11, <1>12, <1>13 DEF Next
--------------------------------------------------------------------------------
(* The raw log *)

\* An attempt to archive leaves today's log either sound or marked for repair, and
\* a response that counts as archived can be read back.
LEMMA ArchiveSound ==
  ASSUME TypeOK, TornTailsMarked, RawInv, pc # "down", Archive
  PROVE  /\ rawTail'[day] = "torn" => day \in needsRepair'
         /\ \A d \in Days : d > day => rawTail'[d] = "missing"
         /\ rawArchived' => rawHas' /\ AuxOf(input) \subseteq rawAux'
         /\ rawOk' => rawArchived'
         /\ rawAux \subseteq rawAux'
<1>1. PICK repaired \in SUBSET needsRepair :
        \/ /\ day \notin needsRepair \ repaired
           /\ Append(Repaired(repaired))
           /\ rawArchived' = TRUE
        \/ /\ IF day \in needsRepair \ repaired
              THEN rawTail' = Repaired(repaired) /\ UNCHANGED <<rawHas, rawAux>>
              ELSE BreakAppend(Repaired(repaired))
           /\ rawArchived' = FALSE /\ rawOk' = FALSE
           /\ needsRepair' = (needsRepair \ repaired) \cup {day}
  BY Zenon DEF Archive
<1>2. day \in Days /\ day \in Nat /\ rawTail \in [Days -> {"missing", "clean", "torn"}]
  BY DEF TypeOK, Days
<1> DEFINE tail == Repaired(repaired)
<1>3. /\ tail \in [Days -> {"missing", "clean", "torn"}]
      /\ \A d \in Days : d > day => tail[d] = "missing"
  BY <1>2 DEF Repaired, RawInv
<1>4. day \notin needsRepair \ repaired => tail[day] # "torn"
  <2>1. rawTail[day] = "torn" => day \in needsRepair
    BY <1>2, PipelineAssumption DEF TornTailsMarked, Days
  <2>2. QED
    BY <1>2, <2>1 DEF Repaired
<1> HIDE DEF tail
<1>5. CASE day \notin needsRepair \ repaired /\ Append(tail) /\ rawArchived' = TRUE
  <2>1. rawTail' = [tail EXCEPT ![day] = IF @ = "torn" THEN @ ELSE "clean"]
        /\ rawAux' = rawAux \cup AuxOf(input)
    BY <1>4, <1>5 DEF Append, tail
  <2>2. rawHas'
    BY Zenon, <1>4, <1>5 DEF Append, tail
  <2>3. rawTail'[day] # "torn" /\ \A d \in Days : d > day => rawTail'[d] = "missing"
    BY <1>2, <1>3, <1>4, <1>5, <2>1 DEF tail
  <2>4. QED
    BY <1>5, <2>1, <2>2, <2>3
<1>6. CASE /\ rawTail' = tail /\ UNCHANGED <<rawHas, rawAux>>
           /\ rawArchived' = FALSE /\ rawOk' = FALSE /\ day \in needsRepair'
  BY <1>3, <1>6
<1>7. CASE BreakAppend(tail) /\ rawArchived' = FALSE /\ rawOk' = FALSE /\ day \in needsRepair'
  BY <1>2, <1>3, <1>7 DEF BreakAppend, Append
<1>8. QED
  BY <1>1, <1>5, <1>6, <1>7 DEF tail

\* Every step keeps torn logs marked while the process runs, and everything that
\* counts as archived readable.
LEMMA NextArchived ==
  TypeOK /\ SelectionInv /\ TornTailsMarked /\ AuxiliaryArchived /\ RawInv /\ [Next]_vars
    => TornTailsMarked' /\ AuxiliaryArchived' /\ RawInv'
<1> SUFFICES ASSUME TypeOK, SelectionInv, TornTailsMarked, AuxiliaryArchived, RawInv,
                    [Next]_vars
             PROVE  TornTailsMarked' /\ AuxiliaryArchived' /\ RawInv'
  OBVIOUS
<1> DEFINE Late == {"presence", "filter", "stage", "fallback", "health", "journal"}
<1>0. /\ day \in Days /\ day \in Nat \ {0} /\ MaxDay \in Nat /\ input \in Responses
      /\ rawTail \in [Days -> {"missing", "clean", "torn"}]
      /\ auxSignature \in Auxiliary \cup {None}
  BY PipelineAssumption DEF TypeOK, Days
<1>1. ASSUME UNCHANGED <<rawLog, day, rawArchived, rawOk, input, auxSignature>>,
             pc # "down", pc' \in Late /\ Parses(input) => pc \in Late
      PROVE  TornTailsMarked' /\ AuxiliaryArchived' /\ RawInv'
  <2>1. AuxOf(input)' = AuxOf(input) /\ (Parses(input)' <=> Parses(input))
    BY <1>1 DEF AuxOf, Parses
  <2>2. QED
    BY <1>1, <2>1 DEF rawLog, TornTailsMarked, AuxiliaryArchived, RawInv
<1>2. ASSUME NEW needed, ForceArchive(needed), UNCHANGED <<day, input>>, pc # "down",
             auxSignature' # None => auxSignature' \in rawAux',
             /\ pc' \in Late /\ Parses(input)
             => \/ pc \in Late
                \/ ~needed /\ input.aux \in rawAux
                \/ needed
      PROVE  TornTailsMarked' /\ AuxiliaryArchived' /\ RawInv'
  <2>1. AuxOf(input)' = AuxOf(input) /\ (Parses(input)' <=> Parses(input))
    BY <1>2 DEF AuxOf, Parses
  <2>2. CASE Archive
    <3>1. /\ rawTail'[day] = "torn" => day \in needsRepair'
          /\ \A d \in Days : d > day => rawTail'[d] = "missing"
          /\ rawArchived' => rawHas' /\ AuxOf(input) \subseteq rawAux'
          /\ rawOk' => rawArchived'
      BY <1>2, <2>2, ArchiveSound
    <3>2. TornTailsMarked'
      BY <1>0, <1>2, <3>1 DEF TornTailsMarked, Days
    <3>3. Parses(input) /\ rawOk' => input.aux \in rawAux'
      BY <3>1 DEF AuxOf
    <3>4. QED
      BY <1>2, <2>1, <3>1, <3>2, <3>3 DEF AuxiliaryArchived, RawInv
  <2>3. CASE UNCHANGED <<rawLog, rawArchived, rawOk, counts>> /\ (~needed \/ rawArchived)
    <3>1. pc' \in Late /\ Parses(input) /\ rawOk => input.aux \in rawAux
      BY <1>2, <2>3 DEF RawInv, AuxOf
    <3>2. QED
      BY <1>2, <2>1, <2>3, <3>1 DEF rawLog, TornTailsMarked, AuxiliaryArchived, RawInv
  <2>4. QED
    BY <1>2, <2>2, <2>3 DEF ForceArchive
<1>3. CASE Receive
  <2>1. /\ day' \in Nat /\ day' >= day /\ rawArchived' = FALSE /\ pc # "down"
        /\ pc' \in {"gap", "raw"}
    BY <1>0, <1>3 DEF Receive, NextPoll, MayRollOver, FreshResult
  <2>2. QED
    BY <1>0, <1>3, <2>1 DEF Receive, TornTailsMarked, AuxiliaryArchived, RawInv, Days
<1>4. CASE WorkerError
  BY <1>0, <1>4
  DEF WorkerError, NextPoll, FreshResult, TornTailsMarked, AuxiliaryArchived, RawInv
<1>5. CASE Gap
  BY <1>1, <1>5 DEF Gap, SelectionInv
<1>6. CASE ArchiveRaw
  <2>1. CASE Archive
    <3>1. ForceArchive(TRUE) \/ rawArchived
      BY <2>1 DEF ForceArchive
    <3>2. /\ rawTail'[day] = "torn" => day \in needsRepair'
          /\ \A d \in Days : d > day => rawTail'[d] = "missing"
          /\ rawArchived' => rawHas' /\ AuxOf(input) \subseteq rawAux'
          /\ rawAux \subseteq rawAux'
      BY <1>6, <2>1, ArchiveSound DEF ArchiveRaw
    <3>3. pc' = "parse" /\ UNCHANGED <<day, input, auxSignature>>
      BY <1>6 DEF ArchiveRaw
    <3>4. TornTailsMarked'
      BY <1>0, <3>2, <3>3 DEF TornTailsMarked, Days
    <3>5. AuxOf(input)' = AuxOf(input)
      BY <3>3 DEF AuxOf, Parses
    <3>6. QED
      BY <3>2, <3>3, <3>4, <3>5 DEF AuxiliaryArchived, RawInv
  <2>2. CASE UNCHANGED <<rawLog, rawArchived, rawOk, counts>>
    BY <1>1, <1>6, <2>2 DEF ArchiveRaw
  <2>3. QED
    BY <1>6, <2>1, <2>2 DEF ArchiveRaw
<1>7. CASE Parse
  BY <1>1, <1>7 DEF Parse
<1>8. CASE ArchiveAuxiliary
  <2>1. ForceArchive(input.aux # auxSignature)
    BY <1>8 DEF ArchiveAuxiliary
  <2>2. UNCHANGED <<day, input, auxSignature>> /\ pc = "auxiliary"
    BY <1>8 DEF ArchiveAuxiliary
  <2>3. rawAux \subseteq rawAux'
    BY <2>1, <2>2, ArchiveSound DEF ForceArchive, rawLog
  <2>4. auxSignature' # None => auxSignature' \in rawAux'
    BY <2>2, <2>3 DEF AuxiliaryArchived
  <2>5. Parses(input) /\ input.aux = auxSignature => input.aux \in rawAux
    BY <1>0, ResponseTyped, PipelineAssumption DEF AuxiliaryArchived, None
  <2>6. QED
    BY <1>2, <2>1, <2>2, <2>4, <2>5
<1>9. CASE Presence \/ Filter \/ Stage
  BY <1>1, <1>9 DEF Presence, Filter, Stage
<1>10. CASE Fallback
  <2>1. ForceArchive(Incomplete) /\ auxSignature' = Signature
    BY <1>10 DEF Fallback
  <2>2. UNCHANGED <<day, input>> /\ pc = "fallback"
    BY <1>10 DEF Fallback
  <2>3. rawAux \subseteq rawAux' /\ (rawArchived' => AuxOf(input) \subseteq rawAux')
    BY <2>1, <2>2, ArchiveSound DEF ForceArchive, rawLog, RawInv
  <2>4. auxSignature' # None => auxSignature' \in rawAux'
    BY <2>1, <2>3 DEF Signature, AuxOf, AuxiliaryArchived
  <2>5. QED
    BY <1>2, <2>1, <2>2, <2>4
<1>11. CASE RecordSuccess \/ UnexpectedFailure \/ Journal \/ JournalFailure \/ Stop
  BY <1>1, <1>11
  DEF RecordSuccess, UnexpectedFailure, Journal, JournalFailure, Stop, result
<1>12. CASE LastResort
  <2>1. ForceArchive(TRUE)
    BY <1>12 DEF LastResort
  <2>2. UNCHANGED <<day, input, auxSignature>> /\ pc = "lastResort" /\ pc' = "idle"
    BY <1>12 DEF LastResort
  <2>3. rawAux \subseteq rawAux'
    BY <2>1, <2>2, ArchiveSound DEF ForceArchive, rawLog
  <2>4. auxSignature' # None => auxSignature' \in rawAux'
    BY <2>2, <2>3 DEF AuxiliaryArchived
  <2>5. QED
    BY <1>2, <2>1, <2>2, <2>4
<1>13. CASE Die
  <2>1. /\ pc' = "down" /\ day' = day /\ rawArchived' = FALSE /\ auxSignature' = None
    BY <1>13 DEF Die, FreshResult, FreshMemory
  <2>2. \A d \in Days : d > day => rawTail'[d] = "missing"
    <3>1. ASSUME NEW repaired, BreakAppend(Repaired(repaired))
          PROVE  \A d \in Days : d > day => rawTail'[d] = "missing"
      <4>1. \A d \in Days : d > day => Repaired(repaired)[d] = "missing"
        BY DEF Repaired, RawInv
      <4>2. Repaired(repaired) \in [Days -> {"missing", "clean", "torn"}]
        BY RepairTyped
      <4>3. QED
        BY <1>0, <3>1, <4>1, <4>2 DEF BreakAppend, Append
    <3>2. QED
      BY <1>13, <3>1 DEF Die, RawInv
  <2>3. QED
    BY <2>1, <2>2 DEF TornTailsMarked, AuxiliaryArchived, RawInv
<1>14. CASE Restart
  <2>1. PICK repaired \in SUBSET RecentRawLogs(day') :
          /\ needsRepair' = RecentRawLogs(day') \ repaired
          /\ rawTail' = Repaired(repaired)
    BY Zenon, <1>14 DEF Restart
  <2>2. /\ day' \in Nat /\ day' >= day /\ pc' = "idle"
        /\ UNCHANGED <<rawArchived, rawHas, rawAux, input, auxSignature>>
    BY <1>0, <1>14 DEF Restart, MayRollOver, result
  <2>3. \A d \in Days : d > day' => rawTail'[d] = "missing"
    BY <1>0, <2>1, <2>2 DEF Repaired, RawInv, Days
  <2>4. \A d \in Days : d = day' /\ rawTail'[d] = "torn" => d \in needsRepair'
    BY <1>0, <2>1, <2>2 DEF Repaired, RecentRawLogs, Days
  <2>5. TornTailsMarked'
    BY <1>0, <2>2, <2>3, <2>4 DEF TornTailsMarked, Days
  <2>6. AuxOf(input)' = AuxOf(input)
    BY <2>2 DEF AuxOf, Parses
  <2>7. QED
    BY <2>2, <2>3, <2>5, <2>6 DEF AuxiliaryArchived, RawInv
<1>15. CASE UNCHANGED vars
  <2>1. AuxOf(input)' = AuxOf(input) /\ (Parses(input)' <=> Parses(input))
    BY <1>15 DEF AuxOf, Parses, vars
  <2>2. QED
    BY <1>15, <2>1 DEF vars, result, rawLog, TornTailsMarked, AuxiliaryArchived, RawInv
<1>16. QED
  BY <1>3, <1>4, <1>5, <1>6, <1>7, <1>8, <1>9, <1>10, <1>11, <1>12, <1>13, <1>14, <1>15
  DEF Next

--------------------------------------------------------------------------------
(* The theorems *)

\* A new process with empty files satisfies the inductive invariant.
LEMMA InitEstablishesIInv == Init => IInv
<1> SUFFICES ASSUME Init PROVE IInv
  OBVIOUS
<1>1. TypeOK
  BY InitTyped
<1>2. /\ pc = "idle" /\ day = 1 /\ trackDay = 0 /\ presenceDay = 0 /\ observing = FALSE
      /\ presenceLog.valid /\ rawArchived = FALSE /\ auxSignature = None
      /\ rawTail = [d \in Days |-> "missing"]
  BY DEF Init, None, EmptyLog
<1>3. QED
  BY <1>1, <1>2 DEF IInv, TrackerBacked, PresenceReplayable, TornTailsMarked,
     AuxiliaryArchived, SelectionInv, PresenceInv, RawInv, Days

\* The inductive invariant of the pipeline holds throughout, over every sequence of
\* responses, failures, crashes and restarts.
THEOREM PipelineInvariant == Spec => []IInv
<1>1. IInv /\ [Next]_vars => IInv'
  BY NextTyped, NextTracked, NextObserved, NextArchived DEF IInv
<1>2. QED
  BY <1>1, InitEstablishesIInv, PTL DEF Spec

\* What ChangeTracker remembers of the date can be read back from the staged rows,
\* whatever failed: it only advances after stage() returned.
THEOREM TrackerIsBacked == Spec => []TrackerBacked
BY PipelineInvariant, PTL DEF IInv

\* A poll that went through tracking and staging is reconstructed by the rows of its
\* date, although only the changed trips were staged.
THEOREM RowsReconstructSnapshots == Spec => []StagedRowsReconstruct
<1>1. IInv => StagedRowsReconstruct
  BY DEF IInv, SelectionInv, StagedRowsReconstruct
<1>2. QED
  BY <1>1, PipelineInvariant, PTL

\* apply_presence_record accepts every record of the log in turn, and arrives at the
\* membership TripUpdatePresence holds.
THEOREM PresenceLogReplays == Spec => []PresenceReplayable
BY PipelineInvariant, PTL DEF IInv

\* _archive_raw never appends behind a torn record: run() and every failed append
\* mark the date.
THEOREM TornTailsAreMarked == Spec => []TornTailsMarked
BY PipelineInvariant, PTL DEF IInv

\* The auxiliary signature only advances to a state some readable raw record holds.
THEOREM AuxiliaryIsArchived == Spec => []AuxiliaryArchived
BY PipelineInvariant, PTL DEF IInv

\* A presence delta is only ever written by the poll right after that of the record
\* before it: nothing is withdrawn across a gap.
THEOREM DeltasFollowPolls == Spec => DeltaFollowsPoll
<1>1. IInv /\ [Next]_vars
        => [presenceLog'.kind = "delta" /\ presenceLog' # presenceLog
              => presenceLog.poll = poll - 1]_vars
  <2> SUFFICES ASSUME IInv, Next, presenceLog'.kind = "delta", presenceLog' # presenceLog
               PROVE  presenceLog.poll = poll - 1
    OBVIOUS
  <2>1. poll \in Nat /\ presenceLog.poll \in Nat
    BY PipelineAssumption DEF IInv, TypeOK
  <2>2. ~MayRollOver
    BY DEF MayRollOver, EmptyLog
  <2>3. Presence
    BY <2>2 DEF Next, Receive, WorkerError, Gap, ArchiveRaw, Parse, ArchiveAuxiliary, Filter,
       Stage, Fallback, RecordSuccess, UnexpectedFailure, Journal, JournalFailure,
       LastResort, Stop, Die, Restart
  <2>4. pc = "presence" /\ Observe
    BY <2>3 DEF Presence
  <2>5. presenceLog' = Replay(~Known, Present(input.snapshot) \ (IF Known THEN members ELSE {}),
                              (IF Known THEN members ELSE {}) \ Present(input.snapshot))
    BY <2>4 DEF Observe
  <2>6. Known
    BY <2>5 DEF Replay
  <2>7. QED
    BY <2>1, <2>4, <2>6 DEF IInv, PresenceInv, Known
<1>2. QED
  BY <1>1, PipelineInvariant, PTL DEF Spec, DeltaFollowsPoll

--------------------------------------------------------------------------------
(* What a poll leaves behind *)

\* An attempt to archive never takes a raw record away; unless a call raises, or if
\* it reports success, the response can be read back from the raw log.
LEMMA ArchiveOutcome ==
  ASSUME IInv, pc # "down", Archive
  PROVE  /\ rawHas => rawHas'
         /\ rawOk' => rawHas'
         /\ pollFaults' = pollFaults => rawHas'
         /\ pollFaults' >= pollFaults
<1>1. PICK repaired \in SUBSET needsRepair :
        \/ /\ IF needsRepair \ repaired = {} THEN UNCHANGED counts ELSE Fault
           /\ Append(Repaired(repaired))
           /\ rawArchived' = TRUE
        \/ /\ Fault
           /\ IF day \in needsRepair \ repaired
              THEN rawTail' = Repaired(repaired) /\ UNCHANGED <<rawHas, rawAux>>
              ELSE BreakAppend(Repaired(repaired))
           /\ rawArchived' = FALSE
  BY Zenon DEF Archive
<1>2. (rawArchived' => rawHas') /\ (rawOk' => rawArchived')
  BY ArchiveSound DEF IInv
<1>3. pollFaults \in Nat
  BY DEF IInv, TypeOK
<1>4. Fault => pollFaults' > pollFaults
  BY <1>3 DEF Fault
<1>5. pollFaults' >= pollFaults
  <2>1. Fault \/ UNCHANGED counts
    BY Zenon, <1>1
  <2>2. CASE Fault
    BY <1>3, <2>2 DEF Fault
  <2>3. CASE UNCHANGED counts
    BY <1>3, <2>3 DEF counts
  <2>4. QED
    BY Zenon, <2>1, <2>2, <2>3
<1>6. rawHas => rawHas'
  BY <1>1 DEF Append, BreakAppend
<1>7. pollFaults' = pollFaults => ~Fault
  BY <1>3, <1>4
<1>8. pollFaults' = pollFaults => rawArchived'
  BY Zenon, <1>1, <1>7
<1>9. QED
  BY Zenon, <1>2, <1>5, <1>6, <1>8

\* So it is with an attempt that is only made where it is needed.
LEMMA ForceOutcome ==
  ASSUME IInv, pc # "down", NEW needed, ForceArchive(needed)
  PROVE  /\ rawHas => rawHas'
         /\ needed /\ rawOk' /\ ~rawArchived => rawHas'
         /\ needed /\ rawArchived => rawHas'
         /\ needed /\ pollFaults' = pollFaults => rawHas'
         /\ pollFaults' >= pollFaults
<1>1. CASE needed /\ ~rawArchived
  <2>1. Archive
    BY <1>1 DEF ForceArchive
  <2>2. QED
    BY <1>1, <2>1, ArchiveOutcome
<1>2. CASE ~(needed /\ ~rawArchived)
  <2>1. UNCHANGED <<rawHas, pollFaults>>
    BY <1>2 DEF ForceArchive, rawLog, counts
  <2>2. rawArchived => rawHas
    BY DEF IInv, RawInv
  <2>3. pollFaults \in Nat
    BY DEF IInv, TypeOK
  <2>4. QED
    BY <1>2, <2>1, <2>2, <2>3
<1>3. QED
  BY <1>1, <1>2

\* The event of a poll is its last step; a full response only falls short after a
\* call has raised.
LEMMA NextOrdered == IInv /\ OrderInv /\ [Next]_vars => OrderInv'
<1> SUFFICES ASSUME IInv, OrderInv, [Next]_vars PROVE OrderInv'
  OBVIOUS
<1>0. /\ poll \in Nat /\ event.poll \in Nat /\ pollFaults \in Nat
      /\ event.poll <= poll
  BY PipelineAssumption DEF IInv, TypeOK, OrderInv
<1> DEFINE Forward == {"gap", "raw", "parse", "auxiliary", "presence", "filter", "stage",
                       "fallback", "health", "journal"}
<1>1. ASSUME UNCHANGED <<poll, input, event, trackingOk, presenceOk, spoolOk>>,
             pollFaults' \in Nat, pollFaults' >= pollFaults,
             pc \in Forward, pc' \in Forward \cup {"idle"},
             pc' # "gap",
             pc' \in {"raw", "parse", "fallback", "health"} => input.kind # "lost",
             pc' \in {"auxiliary", "presence", "filter", "stage"} => Parses(input)
      PROVE  OrderInv'
  BY <1>0, <1>1 DEF OrderInv, Parses
<1>2. CASE Receive
  <2>1. /\ poll' = poll + 1 /\ event' = event /\ pollFaults' = 0
        /\ trackingOk' /\ presenceOk' /\ spoolOk'
    BY Zenon, <1>2 DEF Receive, NextPoll, FreshResult
  <2>2. pc' = IF input'.kind = "lost" THEN "gap" ELSE "raw"
    BY <1>2 DEF Receive
  <2>3. QED
    BY <1>0, <2>1, <2>2 DEF OrderInv
<1>3. CASE WorkerError
  <2>1. /\ poll' = poll + 1 /\ event' = event /\ pc' = "idle" /\ input'.kind = "lost"
    BY <1>3 DEF WorkerError, NextPoll, NoResponse
  <2>2. QED
    BY <1>0, <2>1 DEF OrderInv
<1>4. CASE Gap
  BY <1>0, <1>4 DEF Gap, OrderInv, counts
<1>5. CASE ArchiveRaw
  <2>1. pollFaults' >= pollFaults
    <3>1. CASE Archive
      BY <1>5, <3>1, ArchiveOutcome DEF ArchiveRaw
    <3>2. CASE UNCHANGED counts
      BY <1>0, <3>2 DEF counts
    <3>3. QED
      BY <1>5, <3>1, <3>2 DEF ArchiveRaw
  <2>2. pollFaults' \in Nat
    BY NextTyped DEF IInv, TypeOK
  <2>3. QED
    BY <1>1, <1>5, <2>1, <2>2 DEF ArchiveRaw, OrderInv
<1>6. CASE Parse
  <2>1. CASE Parses(input)
    BY <1>0, <1>1, <1>6, <2>1 DEF Parse, OrderInv, counts
  <2>2. CASE ~Parses(input)
    <3>1. /\ UNCHANGED <<poll, input, event>> /\ pc = "parse" /\ pc' = "fallback"
      BY <1>6, <2>2 DEF Parse
    <3>2. QED
      BY <2>2, <3>1 DEF OrderInv, Parses
  <2>3. QED
    BY <2>1, <2>2
<1>7. CASE ArchiveAuxiliary
  <2>1. pollFaults' >= pollFaults
    BY <1>7, ForceOutcome DEF ArchiveAuxiliary
  <2>2. pollFaults' \in Nat
    BY NextTyped DEF IInv, TypeOK
  <2>3. QED
    BY <1>1, <1>7, <2>1, <2>2 DEF ArchiveAuxiliary, OrderInv
<1>8. CASE Presence
  <2>1. /\ UNCHANGED <<poll, input, event, trackingOk, spoolOk>>
        /\ pc = "presence" /\ pc' = "filter"
    BY <1>8 DEF Presence
  <2>2. input.kind = "partial" \/ pollFaults' > 0 \/ UNCHANGED <<presenceOk, pollFaults>>
    <3>1. Fault => pollFaults' > 0
      BY <1>0 DEF Fault
    <3>2. QED
      BY Zenon, <1>8, <3>1 DEF Presence, Observe, counts
  <2>3. QED
    BY <1>0, <2>1, <2>2 DEF OrderInv, Parses
<1>9. CASE Filter
  <2>1. CASE input.kind = "silent"
    BY <1>9, <2>1 DEF Filter, OrderInv, Parses
  <2>2. CASE input.kind # "silent"
    BY <1>0, <1>1, <1>9, <2>2 DEF Filter, OrderInv, counts
  <2>3. QED
    BY <2>1, <2>2
<1>10. CASE Stage
  <2>1. /\ UNCHANGED <<poll, input, event, trackingOk, presenceOk>>
        /\ pc = "stage" /\ pc' = "fallback"
    BY <1>10 DEF Stage
  <2>2. pollFaults' > 0 \/ UNCHANGED <<spoolOk, pollFaults>>
    <3>1. Fault => pollFaults' > 0
      BY <1>0 DEF Fault
    <3>2. QED
      BY Zenon, <1>10, <3>1 DEF Stage, counts
  <2>3. QED
    BY <1>0, <2>1, <2>2 DEF OrderInv, Parses
<1>11. CASE Fallback
  <2>1. pollFaults' >= pollFaults
    BY <1>11, ForceOutcome DEF Fallback
  <2>2. pollFaults' \in Nat
    BY NextTyped DEF IInv, TypeOK
  <2>3. QED
    BY <1>1, <1>11, <2>1, <2>2 DEF Fallback, OrderInv
<1>12. CASE RecordSuccess
  BY <1>0, <1>1, <1>12 DEF RecordSuccess, result, counts
<1>13. CASE UnexpectedFailure
  BY <1>0, <1>1, <1>13 DEF UnexpectedFailure, Fault
<1>14. CASE Journal
  BY <1>0, <1>14 DEF Journal, OrderInv, PollEvent, result, counts
<1>15. CASE JournalFailure
  <2>1. /\ UNCHANGED <<poll, input, trackingOk, presenceOk, spoolOk>>
        /\ pc' = IF input.kind = "lost" THEN "idle" ELSE "lastResort"
        /\ pollFaults' > 0
    BY <1>0, <1>15 DEF JournalFailure, result, Fault
  <2>2. event'.poll <= poll
    BY <1>0, <1>15 DEF JournalFailure, PollEvent
  <2>3. QED
    BY <2>1, <2>2 DEF OrderInv
<1>16. CASE LastResort
  <2>1. pollFaults' >= pollFaults
    BY <1>16, ForceOutcome DEF LastResort
  <2>2. /\ UNCHANGED <<poll, input, event, trackingOk, presenceOk, spoolOk>>
        /\ pc = "lastResort" /\ pc' = "idle"
    BY <1>16 DEF LastResort
  <2>3. pollFaults' \in Nat
    BY NextTyped DEF IInv, TypeOK
  <2>4. QED
    BY <1>0, <2>1, <2>2, <2>3 DEF OrderInv
<1>17. CASE Stop
  BY <1>0, <1>17 DEF Stop, OrderInv, result, counts
<1>18. CASE Die
  BY <1>18 DEF Die, OrderInv, NoResponse
<1>19. CASE Restart
  BY <1>19 DEF Restart, OrderInv
<1>20. CASE UNCHANGED vars
  BY <1>20 DEF vars, OrderInv, result, counts, Parses
<1>21. QED
  BY <1>2, <1>3, <1>4, <1>5, <1>6, <1>7, <1>8, <1>9, <1>10, <1>11, <1>12, <1>13, <1>14,
     <1>15, <1>16, <1>17, <1>18, <1>19, <1>20
  DEF Next

\* What the flags of a poll say is on disk stays there until the next poll.
LEMMA NextFlagged == IInv /\ OrderInv /\ FlagsInv /\ [Next]_vars => FlagsInv'
<1> SUFFICES ASSUME IInv, OrderInv, FlagsInv, [Next]_vars PROVE FlagsInv'
  OBVIOUS
<1> DEFINE Unobserved == {"idle", "gap", "raw", "parse", "auxiliary", "presence", "down"}
           Tracked == {"fallback", "health", "journal", "lastResort", "idle"}
           Observed == {"filter", "stage"} \cup Tracked
<1>1. ASSUME UNCHANGED <<poll, input, staged, presenceLog, presenceOk, trackingOk, spoolOk,
                         emitted>>,
             pc' \in Observed => pc \in Observed,
             pc' \in Tracked => pc \in Tracked
      PROVE  FlagsInv'
  <2>1. (Parses(input)' <=> Parses(input)) /\ (Consistent(input)' <=> Consistent(input))
    BY <1>1 DEF Parses, Consistent
  <2>2. Present(input.snapshot)' = Present(input.snapshot)
    BY <1>1 DEF Present
  <2>3. QED
    BY <1>1, <2>1, <2>2 DEF FlagsInv
<1>2. ASSUME pc' \in {"gap", "raw", "parse", "auxiliary", "presence", "down"} PROVE FlagsInv'
  BY <1>2 DEF FlagsInv
<1>3. ASSUME input'.kind = "lost" PROVE FlagsInv'
  BY <1>3 DEF FlagsInv, Parses
<1>4. CASE Receive
  BY <1>2, <1>4 DEF Receive
<1>5. CASE WorkerError
  BY <1>3, <1>5 DEF WorkerError, NoResponse
<1>6. CASE Gap
  BY <1>3, <1>6 DEF Gap, OrderInv
<1>7. CASE ArchiveRaw \/ ArchiveAuxiliary
  BY <1>2, <1>7 DEF ArchiveRaw, ArchiveAuxiliary
<1>8. CASE Parse
  <2>1. CASE Parses(input)
    BY <1>2, <1>8, <2>1 DEF Parse
  <2>2. CASE ~Parses(input)
    <3>1. input' = input /\ pc' = "fallback" /\ presenceOk' = FALSE
      BY <1>8, <2>2 DEF Parse
    <3>2. QED
      BY <2>2, <3>1 DEF FlagsInv, Parses
  <2>3. QED
    BY <2>1, <2>2
<1>9. CASE Presence
  <2>1. UNCHANGED <<poll, input>> /\ pc = "presence" /\ pc' = "filter"
    BY <1>9 DEF Presence
  <2>2. Parses(input)
    BY <2>1 DEF OrderInv
  <2>3. presenceOk' => presenceLog'.poll = poll /\ presenceLog'.members = Present(input.snapshot)
    <3>1. CASE presenceOk' = FALSE
      BY <3>1
    <3>2. CASE Observe /\ presenceOk' # FALSE
      <4>1. presenceDay' = day /\ observing' = TRUE
              /\ members' = Present(input.snapshot)
        BY Zenon, <3>2 DEF Observe
      <4>2. PresenceReplayable'
        BY NextObserved DEF IInv
      <4>3. presenceLog'.members = members'
        BY <1>9, <4>1, <4>2 DEF PresenceReplayable, Presence
      <4>4. presenceLog'.poll = poll
        <5>1. PICK entered, withdrawn : presenceLog' = Replay(~Known, entered, withdrawn)
          BY Zenon, <3>2 DEF Observe
        <5>2. QED
          BY <5>1 DEF Replay
      <4>5. QED
        BY <4>1, <4>3, <4>4
    <3>3. QED
      BY <1>9, <3>1, <3>2 DEF Presence
  <2>4. QED
    BY <2>1, <2>2, <2>3 DEF FlagsInv, Parses, Present
<1>10. CASE Filter
  <2>1. UNCHANGED <<poll, input, presenceLog, presenceOk>> /\ pc = "filter"
    BY <1>10 DEF Filter
  <2>2. pc' = "stage" \/ (pc' = "fallback" /\ trackingOk' = FALSE)
    BY Zenon, <1>10 DEF Filter
  <2>3. QED
    BY <2>1, <2>2 DEF FlagsInv, Parses, Present
<1>11. CASE Stage
  <2>1. /\ UNCHANGED <<poll, input, presenceLog, presenceOk, trackingOk, emitted>>
        /\ pc = "stage" /\ pc' = "fallback"
    BY <1>11 DEF Stage
  <2>2. emitted \subseteq Present(input.snapshot)
    BY <2>1 DEF IInv, SelectionInv
  <2>3. SelectionInv'
    BY NextTracked DEF IInv
  <2>4. Parses(input') /\ trackingOk' /\ spoolOk' => Consistent(input)'
    BY <2>1, <2>3 DEF SelectionInv
  <2>5. QED
    BY <2>1, <2>2, <2>4 DEF FlagsInv, Parses, Present
<1>12. CASE Fallback \/ LastResort
  BY <1>1, <1>12 DEF Fallback, LastResort
<1>13. CASE RecordSuccess \/ Journal \/ JournalFailure \/ Stop
  BY <1>1, <1>13 DEF RecordSuccess, Journal, JournalFailure, Stop, result
<1>14. CASE UnexpectedFailure
  BY <1>1, <1>14 DEF UnexpectedFailure
<1>15. CASE Die
  BY <1>2, <1>15 DEF Die
<1>16. CASE Restart
  BY <1>3, <1>16 DEF Restart, OrderInv
<1>17. CASE UNCHANGED vars
  BY <1>1, <1>17 DEF vars, result
<1>18. QED
  BY <1>4, <1>5, <1>6, <1>7, <1>8, <1>9, <1>10, <1>11, <1>12, <1>13, <1>14, <1>15, <1>16,
     <1>17
  DEF Next

\* With at most one mishap, a first failure leaves no room for a second.
LEMMA RoomForOne ==
  \A m, n \in Nat : n >= m => /\ n + 1 <= 1 => n = m
                              /\ m > 0 /\ n + 0 <= 1 => n = m
OBVIOUS

\* Nothing that happens after the fallback takes back what made the response
\* reconstructible, and what an event claims stays true.
LEMMA NextEvident ==
  IInv /\ OrderInv /\ FlagsInv /\ EvidenceInv /\ [Next]_vars => EvidenceInv'
<1> SUFFICES ASSUME IInv, OrderInv, FlagsInv, EvidenceInv, [Next]_vars PROVE EvidenceInv'
  OBVIOUS
<1>0. /\ poll \in Nat /\ event.poll \in Nat /\ pollFaults \in Nat /\ event.poll <= poll
  BY PipelineAssumption DEF IInv, TypeOK, OrderInv
<1>1. ASSUME pc' \notin {"health", "journal", "lastResort", "idle"} PROVE EvidenceInv'
  BY <1>1 DEF EvidenceInv
<1>2. ASSUME input'.kind = "lost" PROVE EvidenceInv'
  BY <1>2 DEF EvidenceInv
<1>3. ASSUME UNCHANGED <<poll, input, staged, presenceLog>>, rawHas => rawHas', Reconstructible
      PROVE  Reconstructible'
  BY <1>3 DEF Reconstructible, Parses, Consistent, Present
<1>4. ASSUME UNCHANGED <<input, trackingOk, spoolOk, emitted>>
      PROVE  EmittedRows' = EmittedRows
  BY <1>4 DEF EmittedRows, Parses
<1>5. CASE Receive
  BY <1>1, <1>5 DEF Receive
<1>6. CASE WorkerError
  BY <1>2, <1>6 DEF WorkerError, NoResponse
<1>7. CASE Gap
  BY <1>2, <1>7 DEF Gap, OrderInv
<1>8. CASE ArchiveRaw \/ Parse \/ ArchiveAuxiliary \/ Presence \/ Filter \/ Stage
  BY <1>1, <1>8 DEF ArchiveRaw, Parse, ArchiveAuxiliary, Presence, Filter, Stage
<1>9. CASE Fallback
  <2>1. /\ UNCHANGED <<poll, input, staged, presenceLog, trackingOk, spoolOk, presenceOk>>
        /\ pc = "fallback" /\ pc' = "health"
    BY <1>9 DEF Fallback
  <2>2. input.kind # "lost"
    BY <2>1 DEF OrderInv
  <2>3. /\ rawHas => rawHas'
        /\ Incomplete /\ rawArchived => rawHas'
        /\ Incomplete /\ rawOk' /\ ~rawArchived => rawHas'
        /\ Incomplete /\ pollFaults' = pollFaults => rawHas'
        /\ pollFaults' >= pollFaults
    BY <1>9, <2>1, ForceOutcome DEF Fallback
  <2>4. CASE ~Incomplete
    <3>1. Reconstructible
      BY <2>1, <2>2, <2>4 DEF Incomplete, FlagsInv, Reconstructible
    <3>2. QED
      BY <1>3, <2>1, <2>3, <3>1 DEF EvidenceInv
  <2>5. CASE Incomplete
    <3>1. Mishaps' <= 1 => pollFaults' = pollFaults
      <4>1. pollFaults' \in Nat
        BY NextTyped DEF IInv, TypeOK
      <4>2. input.kind = "full" => pollFaults > 0
        BY <1>0, <2>5 DEF Incomplete, OrderInv, Parses
      <4>3. CASE input.kind = "full"
        <5>1. Mishaps' = pollFaults' + 0
          BY <2>1, <4>1, <4>3 DEF Mishaps
        <5>2. pollFaults' + 0 <= 1 => pollFaults' = pollFaults
          BY <1>0, <2>3, <4>1, <4>2, <4>3, RoomForOne
        <5>3. QED
          BY Zenon, <5>1, <5>2
      <4>4. CASE input.kind # "full"
        <5>1. Mishaps' = pollFaults' + 1
          BY <2>1, <4>1, <4>4 DEF Mishaps
        <5>2. pollFaults' + 1 <= 1 => pollFaults' = pollFaults
          BY <1>0, <2>3, <4>1, RoomForOne
        <5>3. QED
          BY Zenon, <5>1, <5>2
      <4>5. QED
        BY <4>3, <4>4
    <3>2. rawOk' \/ Mishaps' <= 1 => rawHas'
      BY <2>3, <2>5, <3>1
    <3>3. rawOk' \/ Mishaps' <= 1 => Reconstructible'
      BY <3>2 DEF Reconstructible
    <3>4. QED
      BY <2>1, <3>3 DEF EvidenceInv
  <2>6. QED
    BY <2>4, <2>5
<1>10. CASE RecordSuccess
  <2>1. /\ UNCHANGED <<poll, input, staged, presenceLog, rawHas, rawOk, pollFaults>>
        /\ pc = "health" /\ pc' = "journal"
    BY <1>10 DEF RecordSuccess, rawLog, result, counts
  <2>2. Mishaps' = Mishaps
    BY <2>1 DEF Mishaps
  <2>3. QED
    BY <1>3, <2>1, <2>2 DEF EvidenceInv
<1>11. CASE UnexpectedFailure
  <2>1. /\ UNCHANGED <<poll, input, staged, presenceLog, rawHas, event>>
        /\ pc = "health" /\ pc' = "idle" /\ pollFaults' = pollFaults + 1
    BY <1>11 DEF UnexpectedFailure, rawLog, Fault
  <2>2. event'.poll # poll' /\ input.kind # "lost"
    BY <1>0, <2>1 DEF OrderInv
  <2>3. Mishaps' <= 1 => Mishaps <= 1
    BY <1>0, <2>1 DEF Mishaps
  <2>4. Mishaps' <= 1 => Reconstructible'
    BY <1>3, <2>1, <2>2, <2>3 DEF EvidenceInv
  <2>5. raised'
    BY Zenon, <1>11 DEF UnexpectedFailure
  <2>6. QED
    BY <2>1, <2>2, <2>4, <2>5 DEF EvidenceInv
<1>12. ASSUME UNCHANGED <<poll, input, staged, presenceLog, rawLog, result>>,
              pc = "journal", input.kind # "lost",
              event' \in {event, PollEvent}, Mishaps <= Mishaps',
              \/ pc' = "lastResort"
              \/ pc' = "idle" /\ event' = PollEvent
       PROVE  EvidenceInv'
  <2>1. EmittedRows' = EmittedRows /\ rawHas' = rawHas /\ presenceOk' = presenceOk
    BY <1>4, <1>12 DEF result, rawLog
  <2>2. event.poll # poll
    BY <1>0, <1>12 DEF OrderInv
  <2>3. rawOk \/ Mishaps <= 1 => Reconstructible
    BY <1>12 DEF EvidenceInv
  <2>4. Reconstructible => Reconstructible'
    BY <1>3, <1>12, <2>1
  <2>5. Mishaps' <= 1 => Reconstructible'
    <3>1. Mishaps \in Nat /\ Mishaps' \in Nat
      <4>1. pollFaults' \in Nat
        BY NextTyped DEF IInv, TypeOK
      <4>2. \A n \in Nat : n + 0 \in Nat /\ n + 1 \in Nat
        OBVIOUS
      <4>3. QED
        BY Zenon, <1>0, <4>1, <4>2 DEF Mishaps
    <3>2. QED
      BY <1>12, <2>3, <2>4, <3>1
  <2>6. event'.poll = poll => event' = PollEvent
    BY <1>12, <2>2
  <2>7. rawArchived => rawHas
    BY DEF IInv, RawInv
  <2>8. event' = PollEvent => /\ event'.rawOk => Reconstructible'
                              /\ event'.rawArchived => rawHas'
                              /\ event'.presenceOk => presenceOk'
                              /\ event'.emitted \subseteq EmittedRows'
                              /\ event'.poll = poll
    BY <2>1, <2>3, <2>4, <2>7 DEF PollEvent
  <2>9. QED
    BY <1>12, <2>5, <2>6, <2>8 DEF EvidenceInv
<1>13. CASE Journal
  <2>1. Mishaps' = Mishaps /\ Mishaps <= Mishaps
    BY <1>0, <1>13 DEF Journal, Mishaps, counts
  <2>2. QED
    BY <1>2, <1>12, <1>13, <2>1 DEF Journal
<1>14. CASE JournalFailure
  <2>1. Mishaps <= Mishaps'
    BY <1>0, <1>14 DEF JournalFailure, Mishaps, Fault
  <2>2. QED
    BY <1>2, <1>12, <1>14, <2>1 DEF JournalFailure
<1>15. CASE LastResort
  <2>1. /\ UNCHANGED <<poll, input, staged, presenceLog, event, presenceOk, trackingOk,
                       spoolOk, emitted>>
        /\ pc = "lastResort" /\ pc' = "idle"
    BY <1>15 DEF LastResort
  <2>2. /\ rawHas => rawHas'
        /\ pollFaults' = pollFaults => rawHas'
        /\ pollFaults' >= pollFaults
    BY <1>15, <2>1, ForceOutcome DEF LastResort
  <2>3. input.kind # "lost" /\ pollFaults > 0
    BY <2>1 DEF OrderInv
  <2>4. Mishaps' <= 1 => rawHas'
    <3>1. pollFaults' \in Nat
      BY NextTyped DEF IInv, TypeOK
    <3>2. Mishaps' <= 1 => pollFaults' = pollFaults
      <4>1. CASE input.kind = "full"
        <5>1. Mishaps' = pollFaults' + 0
          BY <2>1, <3>1, <4>1 DEF Mishaps
        <5>2. pollFaults' + 0 <= 1 => pollFaults' = pollFaults
          BY <1>0, <2>2, <2>3, <3>1, RoomForOne
        <5>3. QED
          BY Zenon, <5>1, <5>2
      <4>2. CASE input.kind # "full"
        <5>1. Mishaps' = pollFaults' + 1
          BY <2>1, <3>1, <4>2 DEF Mishaps
        <5>2. pollFaults' + 1 <= 1 => pollFaults' = pollFaults
          BY <1>0, <2>2, <2>3, <3>1, RoomForOne
        <5>3. QED
          BY Zenon, <5>1, <5>2
      <4>3. QED
        BY <4>1, <4>2
    <3>3. QED
      BY <2>2, <3>2
  <2>5. rawHas' => Reconstructible'
    BY DEF Reconstructible
  <2>6. event.poll = poll => /\ event.rawOk => Reconstructible
                             /\ event.rawArchived => rawHas
                             /\ event.presenceOk => presenceOk
                             /\ event.emitted \subseteq EmittedRows
    BY <2>1, <2>3 DEF EvidenceInv
  <2>7. (Reconstructible => Reconstructible') /\ EmittedRows' = EmittedRows
    BY <1>3, <1>4, <2>1, <2>2
  <2>8. QED
    BY <2>1, <2>2, <2>4, <2>5, <2>6, <2>7 DEF EvidenceInv
<1>16. CASE Stop \/ UNCHANGED vars
  <2>1. UNCHANGED <<poll, pc, input, staged, presenceLog, event, rawLog, result, counts>>
    BY <1>16 DEF Stop, vars
  <2>2. /\ EmittedRows' = EmittedRows /\ rawHas' = rawHas /\ Mishaps' = Mishaps
        /\ presenceOk' = presenceOk /\ raised' = raised /\ rawOk' = rawOk
    BY <1>4, <2>1 DEF result, rawLog, counts, Mishaps
  <2>3. Reconstructible => Reconstructible'
    BY <1>3, <2>1, <2>2
  <2>4. QED
    BY <2>1, <2>2, <2>3 DEF EvidenceInv
<1>17. CASE Die
  BY <1>1, <1>17 DEF Die
<1>18. CASE Restart
  BY <1>2, <1>18 DEF Restart, OrderInv
<1>19. QED
  BY <1>5, <1>6, <1>7, <1>8, <1>9, <1>10, <1>11, <1>13, <1>14, <1>15, <1>16, <1>17, <1>18
  DEF Next

\* The evidence of a poll outlives it, over every sequence of responses, failures,
\* crashes and restarts.
THEOREM EvidenceInvariant == Spec => [](IInv /\ OrderInv /\ FlagsInv /\ EvidenceInv)
<1> DEFINE Inv == OrderInv /\ FlagsInv /\ EvidenceInv
<1>1. Init => Inv
  <2> SUFFICES ASSUME Init PROVE Inv
    OBVIOUS
  <2>1. pc = "idle" /\ poll = 0 /\ event.poll = 0 /\ input.kind = "lost"
    BY DEF Init, NoEvent, NoResponse
  <2>2. QED
    BY <2>1 DEF OrderInv, FlagsInv, EvidenceInv, Parses
<1>2. IInv /\ Inv /\ [Next]_vars => Inv'
  BY NextOrdered, NextFlagged, NextEvident
<1> HIDE DEF Inv
<1>3. Spec => []Inv
  BY <1>1, <1>2, PipelineInvariant, PTL DEF Spec
<1>4. QED
  BY <1>3, PipelineInvariant, PTL DEF Inv

\* append_poll_event never claims what is not there: the raw record, the presence
\* record and the emitted rows of the last event are on disk.
THEOREM JournalIsBacked == Spec => []JournalBacked
<1>1. EvidenceInv /\ FlagsInv => JournalBacked
  <2> SUFFICES ASSUME EvidenceInv, FlagsInv, event.poll = poll, pc = "idle",
                      input.kind # "lost"
               PROVE  /\ event.rawArchived => rawHas
                      /\ event.presenceOk => /\ presenceLog.poll = poll
                                             /\ presenceLog.members = Present(input.snapshot)
                      /\ \A t \in event.emitted : staged[t] = input.snapshot[t]
    BY DEF JournalBacked
  <2>1. /\ event.rawArchived => rawHas
        /\ event.presenceOk => presenceOk
        /\ event.emitted \subseteq EmittedRows
    BY DEF EvidenceInv
  <2>2. presenceOk => /\ presenceLog.poll = poll
                      /\ presenceLog.members = Present(input.snapshot)
    BY DEF FlagsInv
  <2>3. ASSUME NEW t \in event.emitted PROVE staged[t] = input.snapshot[t]
    <3>1. t \in EmittedRows
      BY <2>1
    <3>2. t \in emitted /\ Parses(input) /\ trackingOk /\ spoolOk
      BY <3>1 DEF EmittedRows
    <3>3. emitted \subseteq Present(input.snapshot) /\ Consistent(input)
      BY <3>2 DEF FlagsInv
    <3>4. QED
      BY <3>2, <3>3 DEF Consistent
  <2>4. QED
    BY <2>1, <2>2, <2>3
<1>2. QED
  BY <1>1, EvidenceInvariant, PTL

\* process_result keeps a response reconstructible when one thing goes wrong with it,
\* whatever that is: the response itself or any one of its calls.
THEOREM OneFaultIsAbsorbed == Spec => []OneFaultLosesNothing
<1>1. EvidenceInv => OneFaultLosesNothing
  BY DEF EvidenceInv, OneFaultLosesNothing, Mishaps
<1>2. QED
  BY <1>1, EvidenceInvariant, PTL

\* However many calls raise, a response that cannot be had again has raw_ok = false
\* in its event.
THEOREM LossIsReported == Spec => []NoSilentLoss
<1>1. EvidenceInv => NoSilentLoss
  BY DEF EvidenceInv, NoSilentLoss
<1>2. QED
  BY <1>1, EvidenceInvariant, PTL
================================================================================
