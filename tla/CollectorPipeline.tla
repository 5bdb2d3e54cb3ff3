--------------------------- MODULE CollectorPipeline ---------------------------
(***************************************************************************)
(* What one TripUpdates response goes through on the ingestion thread.     *)
(*                                                                         *)
(*   bkk_collector/collector.py                    process_result,         *)
(*                       _archive_raw, recover_recent_raw_tails, run       *)
(*   bkk_collector/realtime/dedup.py               ChangeTracker           *)
(*   bkk_collector/realtime/tripupdate_presence.py TripUpdatePresence      *)
(*   bkk_collector/storage/raw_log.py              append, tail repair     *)
(*   bkk_collector/storage/parquet_store.py        stage                   *)
(*                                                                         *)
(* Polls are processed one after the other.  A poll runs through raw       *)
(* archival, parsing, presence, change tracking, staging, a raw fallback   *)
(* and the poll journal; every one of these may fail, and the process may  *)
(* crash between any two of them or in the middle of a raw append.         *)
(*                                                                         *)
(* A snapshot gives every trip a value, or Absent.  A delta of staged rows *)
(* is kept by its effect: `staged` is what a reader of the partition's     *)
(* rows reconstructs.  The presence log of the date is likewise kept by    *)
(* what replaying it yields.  Only today's files matter to both.           *)
(***************************************************************************)
EXTENDS Naturals, FiniteSets

CONSTANTS
  Trips,
  Values,       \* what the rows of a trip may say
  Auxiliary,    \* states of the shape/stop/trip_modifications entities
  MaxPolls, MaxDay, MaxFaults, MaxRestarts    \* bounds

ASSUME PipelineAssumption ==
  /\ IsFiniteSet(Trips)
  /\ 0 \notin Values \cup Auxiliary
  /\ MaxPolls \in Nat /\ MaxDay \in Nat \ {0}
  /\ MaxFaults \in Nat /\ MaxRestarts \in Nat

VARIABLES
  poll, day, pc,
  toDrain,        \* results left to process once a shutdown was requested
  input,          \* the response in hand
  rawArchived, rawOk, presenceOk, trackingOk, spoolOk, raised,
  emitted,        \* the trips whose rows the tracker selected
  \* memory
  last, trackDay,         \* ChangeTracker._last, _day
  observing, members, presenceDay,  \* TripUpdatePresence._members is not None,
                                    \* _members, _date
  auxSignature,           \* _archived_trip_auxiliary_sha256
  needsRepair,            \* raw_needs_repair: the dates whose raw log is suspect
  \* disk
  rawTail,        \* how the raw log of a date ends
  rawHas,         \* a readable raw record of this poll exists
  rawAux,         \* auxiliary states with a readable raw record
  staged,
  presenceLog,
  event,          \* the last event of the poll journal
  \* bounds
  faults, pollFaults, restarts

result  == <<rawArchived, rawOk, presenceOk, trackingOk, spoolOk, raised, emitted>>
tracker == <<last, trackDay>>
known   == <<observing, members, presenceDay>>
rawLog  == <<needsRepair, rawTail, rawHas, rawAux>>
counts  == <<faults, pollFaults>>
vars == <<poll, day, pc, toDrain, input, result, tracker, known, auxSignature, rawLog,
          staged, presenceLog, event, counts, restarts>>

--------------------------------------------------------------------------------

Days == 1..MaxDay
None == 0
Absent == 0
Nothing == [t \in Trips |-> Absent]
Snapshots == [Trips -> Values \cup {Absent}]
Present(snapshot) == {t \in Trips : snapshot[t] # Absent}

\* What the feed may answer.  "lost": no payload.  "garbage": it does not parse.
\* "partial": not a FULL_DATASET.  "silent": the required signals of all rows are
\* null, for long enough (there are rows, then).  "full": as it should be.
Kinds == {"lost", "garbage", "partial", "silent", "full"}
Parses(r) == r.kind \in {"partial", "silent", "full"}
Responses ==
  [kind : {"lost", "garbage"}, snapshot : {Nothing}, aux : {None}]
    \cup [kind : {"partial", "full"}, snapshot : Snapshots, aux : Auxiliary]
    \cup [kind : {"silent"}, snapshot : Snapshots \ {Nothing}, aux : Auxiliary]
Running == 3    \* no shutdown; at most two results are left when one begins
NoResponse == [kind |-> "lost", snapshot |-> Nothing, aux |-> None]

EmptyLog == [kind |-> "none", poll |-> 0, members |-> {}, valid |-> TRUE]
NoEvent == [poll |-> 0, rawArchived |-> FALSE, rawOk |-> TRUE, presenceOk |-> FALSE,
            emitted |-> {}]

TypeOK ==
  /\ poll \in 0..MaxPolls /\ day \in Days
  /\ pc \in {"idle", "gap", "raw", "parse", "auxiliary", "presence", "filter", "stage",
             "fallback", "health", "journal", "lastResort", "down"}
  /\ input \in Responses
  /\ toDrain \in 0..Running
  /\ observing \in BOOLEAN /\ raised \in BOOLEAN /\ rawHas \in BOOLEAN
  /\ rawArchived \in BOOLEAN /\ rawOk \in BOOLEAN
  /\ presenceOk \in BOOLEAN /\ trackingOk \in BOOLEAN /\ spoolOk \in BOOLEAN
  /\ emitted \subseteq Trips
  /\ last \in Snapshots /\ staged \in Snapshots
  /\ trackDay \in 0..MaxDay /\ presenceDay \in 0..MaxDay
  /\ members \subseteq Trips
  /\ auxSignature \in Auxiliary \cup {None}
  /\ needsRepair \subseteq Days
  /\ rawTail \in [Days -> {"missing", "clean", "torn"}]
  /\ rawAux \subseteq Auxiliary
  /\ presenceLog \in [kind : {"none", "baseline", "delta"}, poll : 0..MaxPolls,
                      members : SUBSET Trips, valid : BOOLEAN]
  /\ event \in [poll : 0..MaxPolls, rawArchived : BOOLEAN, rawOk : BOOLEAN,
                presenceOk : BOOLEAN, emitted : SUBSET Trips]
  /\ faults \in 0..MaxFaults /\ pollFaults \in 0..faults
  /\ restarts \in 0..MaxRestarts

\* The memory of a new process.
FreshMemory ==
  /\ last' = Nothing /\ trackDay' = None
  /\ observing' = FALSE /\ members' = {} /\ presenceDay' = None
  /\ auxSignature' = None

FreshResult ==
  /\ rawArchived' = FALSE /\ rawOk' = TRUE /\ presenceOk' = TRUE
  /\ trackingOk' = TRUE /\ spoolOk' = TRUE /\ raised' = FALSE
  /\ emitted' = {}

Init ==
  /\ poll = 0 /\ day = 1 /\ pc = "idle" /\ toDrain = Running
  /\ input = NoResponse
  /\ rawArchived = FALSE /\ rawOk = TRUE /\ presenceOk = TRUE
  /\ trackingOk = TRUE /\ spoolOk = TRUE /\ raised = FALSE
  /\ emitted = {}
  /\ last = Nothing /\ trackDay = None
  /\ observing = FALSE /\ members = {} /\ presenceDay = None
  /\ auxSignature = None
  /\ needsRepair = {} /\ rawTail = [d \in Days |-> "missing"]
  /\ rawHas = FALSE /\ rawAux = {}
  /\ staged = Nothing
  /\ presenceLog = EmptyLog
  /\ event = NoEvent
  /\ faults = 0 /\ pollFaults = 0 /\ restarts = 0

\* An I/O call of the current poll raises.
Fault ==
  /\ faults < MaxFaults
  /\ faults' = faults + 1
  /\ pollFaults' = pollFaults + 1

\* Midnight: the partition of the new date has no rows and no presence log yet.
MayRollOver ==
  \/ UNCHANGED <<day, staged, presenceLog>>
  \/ /\ day < MaxDay
     /\ day' = day + 1
     /\ staged' = Nothing
     /\ presenceLog' = EmptyLog

--------------------------------------------------------------------------------
(* A poll begins *)

\* Mutant: the remembered membership survives a gap.
Invalidate_Kept == UNCHANGED known
Invalidate == observing' = FALSE /\ members' = {} /\ UNCHANGED presenceDay

\* The next result of the feed: the main loop's, or one of the shutdown drain.
NextPoll ==
  /\ pc = "idle" /\ poll < MaxPolls
  /\ poll' = poll + 1
  /\ toDrain > 0
  /\ toDrain' = IF toDrain = Running THEN Running ELSE toDrain - 1

Receive ==
  /\ NextPoll
  /\ MayRollOver
  /\ input' \in Responses
  /\ pc' = IF input'.kind = "lost" THEN "gap" ELSE "raw"
  /\ FreshResult
  /\ rawHas' = FALSE
  /\ pollFaults' = 0
  /\ UNCHANGED <<tracker, known, auxSignature, needsRepair, rawTail, rawAux, event, faults,
                 restarts>>

\* The future of the request raised: nothing to process and nothing to journal.
WorkerError ==
  /\ NextPoll
  /\ input' = NoResponse
  /\ Invalidate
  /\ FreshResult
  /\ rawHas' = FALSE /\ pollFaults' = 0
  /\ UNCHANGED <<day, pc, tracker, auxSignature, needsRepair, rawTail, rawAux,
                 staged, presenceLog, event, faults, restarts>>

\* result.payload is None.
Gap ==
  /\ pc = "gap"
  /\ Invalidate
  /\ presenceOk' = FALSE
  /\ pc' = "journal"
  /\ UNCHANGED <<poll, day, toDrain, input, rawArchived, rawOk, trackingOk, spoolOk, raised,
                 emitted, tracker, auxSignature, rawLog, staged, presenceLog, event,
                 counts, restarts>>

--------------------------------------------------------------------------------
(* _archive_raw, once it is due or forced *)

AuxOf(r) == IF Parses(r) THEN {r.aux} ELSE {}

\* append_record of the response behind the given tail.  A record that follows a
\* torn one cannot be read back.
Append(tail) ==
  /\ rawTail' = [tail EXCEPT ![day] = IF @ = "torn" THEN @ ELSE "clean"]
  /\ rawHas' = (rawHas \/ tail[day] # "torn")
  /\ rawAux' = IF tail[day] # "torn" THEN rawAux \cup AuxOf(input) ELSE rawAux

\* An append that raises, or is cut short by a crash: nothing was written, a part of
\* the record, or all of it.
BreakAppend(tail) ==
  \/ rawTail' = tail /\ UNCHANGED <<rawHas, rawAux>>
  \/ rawTail' = [tail EXCEPT ![day] = "torn"] /\ UNCHANGED <<rawHas, rawAux>>
  \/ Append(tail)

\* repair_truncated_tail of a set of raw logs.
Repaired(dates) ==
  [d \in Days |-> IF d \in dates /\ rawTail[d] = "torn" THEN "clean" ELSE rawTail[d]]

\* Every suspect log of the feed is repaired first.  If that fails for an older
\* date the append goes on; for today's log it is refused.
Archive ==
  \E repaired \in SUBSET needsRepair :
    LET suspect == needsRepair \ repaired
        tail == Repaired(repaired)
    IN \/ /\ IF suspect = {} THEN UNCHANGED counts ELSE Fault
          /\ day \notin suspect
          /\ Append(tail)
          /\ rawArchived' = TRUE /\ rawOk' = TRUE
          /\ needsRepair' = suspect
       \/ /\ Fault
          /\ IF day \in suspect THEN rawTail' = tail /\ UNCHANGED <<rawHas, rawAux>>
                                ELSE BreakAppend(tail)
          /\ rawArchived' = FALSE /\ rawOk' = FALSE
          /\ needsRepair' = suspect \cup {day}

\* The scheduled attempt: whether raw archival is due depends on the clock only.
ArchiveRaw ==
  /\ pc = "raw"
  /\ \/ Archive
     \/ UNCHANGED <<rawLog, rawArchived, rawOk, counts>>
  /\ pc' = "parse"
  /\ UNCHANGED <<poll, day, toDrain, input, presenceOk, trackingOk, spoolOk, raised, emitted,
                 tracker, known, auxSignature, staged, presenceLog, event, restarts>>

\* force=True where `needed` and not archived already.
ForceArchive(needed) ==
  IF needed /\ ~rawArchived THEN Archive
  ELSE UNCHANGED <<rawLog, rawArchived, rawOk, counts>>

--------------------------------------------------------------------------------
(* Parsing, auxiliary entities, presence *)

Parse ==
  /\ pc = "parse"
  /\ IF Parses(input)
     THEN /\ pc' = "auxiliary"
          /\ UNCHANGED <<known, presenceOk>>
     ELSE /\ Invalidate
          /\ presenceOk' = FALSE
          /\ pc' = "fallback"
  /\ UNCHANGED <<poll, day, toDrain, input, rawArchived, rawOk, trackingOk, spoolOk, raised,
                 emitted, tracker, auxSignature, rawLog, staged, presenceLog, event,
                 counts, restarts>>

ArchiveAuxiliary ==
  /\ pc = "auxiliary"
  /\ ForceArchive(input.aux # auxSignature)
  /\ pc' = "presence"
  /\ UNCHANGED <<poll, day, toDrain, input, presenceOk, trackingOk, spoolOk, raised, emitted,
                 tracker, known, auxSignature, staged, presenceLog, event, restarts>>

\* Replay of one more record, as apply_presence_record does it.
Replay(baseline, entered, withdrawn) ==
  LET old == IF baseline THEN {} ELSE presenceLog.members
  IN [kind |-> IF baseline THEN "baseline" ELSE "delta", poll |-> poll,
      members |-> (old \ withdrawn) \cup entered,
      valid |-> /\ baseline \/ presenceLog.valid
                /\ entered \cap old = {}
                /\ withdrawn \subseteq old]

\* Mutant: a new date does not start from a baseline.
Known_AcrossMidnight == observing
Known == observing /\ presenceDay = day

\* observe() of a FULL_DATASET response: the record goes to disk, then memory advances.
\* A failed append may nevertheless have left the whole record there.
Observe ==
  LET current == Present(input.snapshot)
      previous == IF Known THEN members ELSE {}
      record == Replay(~Known, current \ previous, previous \ current)
  IN /\ presenceDay' = day
     /\ \/ /\ presenceLog' = record
           /\ observing' = TRUE /\ members' = current
           /\ UNCHANGED <<presenceOk, counts>>
        \/ /\ Fault
           /\ presenceLog' \in {presenceLog, record}
           /\ observing' = FALSE /\ members' = {}
           /\ presenceOk' = FALSE

Presence ==
  /\ pc = "presence"
  /\ IF input.kind = "partial"
     THEN Invalidate /\ presenceOk' = FALSE /\ UNCHANGED <<presenceLog, counts>>
     ELSE Observe
  /\ pc' = "filter"
  /\ UNCHANGED <<poll, day, toDrain, input, rawArchived, rawOk, trackingOk, spoolOk, raised,
                 emitted, tracker, auxSignature, rawLog, staged, event, restarts>>

--------------------------------------------------------------------------------
(* Change tracking and staging *)

\* Mutant: the tracker does not forget at midnight.
Remembered_AcrossMidnight(kept) == [t \in Trips |-> IF t \in kept THEN last[t] ELSE Absent]

\* _maybe_reset and _expire_heartbeat_entries: whatever is older than the heartbeat is
\* forgotten; how old an entry is, is left open.
Remembered(kept) ==
  [t \in Trips |-> IF trackDay = day /\ t \in kept THEN last[t] ELSE Absent]

\* filter(update=False)
Filter ==
  /\ pc = "filter"
  /\ \E kept \in SUBSET Trips : last' = Remembered(kept)
  /\ trackDay' = day
  /\ IF input.kind = "silent"
     THEN trackingOk' = FALSE /\ pc' = "fallback" /\ UNCHANGED emitted
     ELSE /\ emitted' = {t \in Present(input.snapshot) : input.snapshot[t] # last'[t]}
          /\ pc' = "stage"
          /\ UNCHANGED trackingOk
  /\ UNCHANGED <<poll, day, toDrain, input, rawArchived, rawOk, presenceOk, spoolOk, raised,
                 known, auxSignature, rawLog, staged, presenceLog, event, counts, restarts>>

With(rows) == [t \in Trips |-> IF t \in emitted THEN input.snapshot[t] ELSE rows[t]]

\* stage() is all or nothing and does nothing for no rows; then tracker.commit().
Stage ==
  /\ pc = "stage"
  /\ \/ /\ staged' = With(staged)
        /\ last' = With(last)
        /\ UNCHANGED <<spoolOk, counts>>
     \/ /\ Fault
        /\ emitted # {}
        /\ spoolOk' = FALSE
        /\ UNCHANGED <<staged, last>>
  /\ pc' = "fallback"
  /\ UNCHANGED <<poll, day, toDrain, input, rawArchived, rawOk, presenceOk, trackingOk, raised,
                 emitted, trackDay, known, auxSignature, rawLog, presenceLog, event, restarts>>

--------------------------------------------------------------------------------
(* Fallback, health, journal *)

\* Mutant: a failed presence write does not force a raw record.
Incomplete_NoPresence == ~Parses(input) \/ ~trackingOk \/ ~spoolOk
Incomplete == ~Parses(input) \/ ~trackingOk \/ ~spoolOk \/ ~presenceOk

\* Mutant: the signature advances without a durable raw record.
Signature_Always == IF Parses(input) THEN input.aux ELSE auxSignature
Signature == IF Parses(input) /\ rawArchived' /\ rawOk' THEN input.aux ELSE auxSignature

Fallback ==
  /\ pc = "fallback"
  /\ ForceArchive(Incomplete)
  /\ auxSignature' = Signature
  /\ pc' = "health"
  /\ UNCHANGED <<poll, day, toDrain, input, presenceOk, trackingOk, spoolOk, raised, emitted,
                 tracker, known, staged, presenceLog, event, restarts>>

RecordSuccess ==
  /\ pc = "health"
  /\ pc' = "journal"
  /\ UNCHANGED <<poll, day, toDrain, input, result, tracker, known, auxSignature, rawLog,
                 staged, presenceLog, event, counts, restarts>>

\* An unexpected exception leaves process_result.  The main loop invalidates
\* presence, the shutdown drain does not.
UnexpectedFailure ==
  /\ pc = "health"
  /\ Fault
  /\ raised' = TRUE
  /\ IF toDrain = Running THEN Invalidate ELSE UNCHANGED known
  /\ pc' = "idle"
  /\ UNCHANGED <<poll, day, toDrain, input, rawArchived, rawOk, presenceOk, trackingOk, spoolOk,
                 emitted, tracker, auxSignature, rawLog, staged, presenceLog, event, restarts>>

\* Mutant: emitted_rows counts the selected rows, staged or not.
EmittedRows_Selected == emitted
EmittedRows == IF Parses(input) /\ trackingOk /\ spoolOk THEN emitted ELSE {}

PollEvent ==
  [poll |-> poll, rawArchived |-> rawArchived, rawOk |-> rawOk, presenceOk |-> presenceOk,
   emitted |-> EmittedRows]

Journal ==
  /\ pc = "journal"
  /\ event' = PollEvent
  /\ pc' = "idle"
  /\ UNCHANGED <<poll, day, toDrain, input, result, tracker, known, auxSignature, rawLog,
                 staged, presenceLog, counts, restarts>>

\* Mutant: nothing is done about a poll that has no event.
JournalFailure_Ignored ==
  /\ pc = "journal"
  /\ Fault
  /\ event' \in {event, PollEvent}
  /\ pc' = "idle"
  /\ UNCHANGED <<poll, day, toDrain, input, result, tracker, known, auxSignature, rawLog,
                 staged, presenceLog, restarts>>

\* append_poll_event raises, whether or not the line is complete.
JournalFailure ==
  /\ pc = "journal"
  /\ Fault
  /\ event' \in {event, PollEvent}
  /\ pc' = IF input.kind = "lost" THEN "idle" ELSE "lastResort"
  /\ UNCHANGED <<poll, day, toDrain, input, result, tracker, known, auxSignature, rawLog,
                 staged, presenceLog, restarts>>

LastResort ==
  /\ pc = "lastResort"
  /\ ForceArchive(TRUE)
  /\ pc' = "idle"
  /\ UNCHANGED <<poll, day, toDrain, input, presenceOk, trackingOk, spoolOk, raised, emitted,
                 tracker, known, auxSignature, staged, presenceLog, event, restarts>>

--------------------------------------------------------------------------------
(* Shutdown, crash, restart *)

\* SIGTERM: the loop ends, one completed and one active result may be left.
Stop ==
  /\ pc = "idle" /\ toDrain = Running
  /\ toDrain' \in 0..2
  /\ UNCHANGED <<poll, day, pc, input, result, tracker, known, auxSignature, rawLog, staged,
                 presenceLog, event, counts, restarts>>

\* A raw append is being made, or about to be.
Appending ==
  \/ pc = "raw"
  \/ pc = "auxiliary" /\ input.aux # auxSignature /\ ~rawArchived
  \/ pc = "fallback" /\ Incomplete /\ ~rawArchived
  \/ pc = "lastResort" /\ ~rawArchived

\* The process ends, after the drain or at any other moment.
Die ==
  /\ pc # "down"
  /\ \/ UNCHANGED <<rawTail, rawHas, rawAux>>
     \/ /\ Appending
        /\ \E repaired \in SUBSET needsRepair :
             day \notin needsRepair \ repaired /\ BreakAppend(Repaired(repaired))
  /\ pc' = "down"
  /\ toDrain' = Running
  /\ input' = NoResponse
  /\ FreshResult /\ FreshMemory
  /\ needsRepair' = {}
  /\ pollFaults' = 0
  /\ UNCHANGED <<poll, day, staged, presenceLog, event, faults, restarts>>

\* Today's raw log and the latest earlier one.
RecentRawLogs(today) ==
  LET files == {d \in Days : rawTail[d] # "missing" /\ d <= today}
      prior == files \ {today}
  IN {d \in files : d = today \/ \A e \in prior : e <= d}

\* run(): recover_recent_raw_tails before the first poll.
Restart ==
  /\ pc = "down" /\ restarts < MaxRestarts
  /\ restarts' = restarts + 1
  /\ MayRollOver
  /\ \E repaired \in SUBSET RecentRawLogs(day') :
       /\ needsRepair' = RecentRawLogs(day') \ repaired
       /\ rawTail' = Repaired(repaired)
       /\ IF needsRepair' = {} THEN UNCHANGED counts ELSE Fault
  /\ pc' = "idle"
  /\ UNCHANGED <<poll, toDrain, input, result, tracker, known, auxSignature, rawHas, rawAux,
                 event>>

--------------------------------------------------------------------------------

Next ==
  \/ Receive \/ WorkerError \/ Gap
  \/ ArchiveRaw \/ Parse \/ ArchiveAuxiliary \/ Presence \/ Filter \/ Stage
  \/ Fallback \/ RecordSuccess \/ UnexpectedFailure
  \/ Journal \/ JournalFailure \/ LastResort
  \/ Stop \/ Die \/ Restart

Spec == Init /\ [][Next]_vars

--------------------------------------------------------------------------------
(* Properties *)

Consistent(r) == \A t \in Present(r.snapshot) : staged[t] = r.snapshot[t]

\* The tracker advances only after the rows are durable: what it remembers of the
\* date is what a reader of the staged rows reconstructs, whatever failed.
TrackerBacked ==
  trackDay = day => \A t \in Present(last) : staged[t] = last[t]

\* Emitting changes only loses nothing: once a poll went through tracking and staging,
\* the rows of the date give every trip of its snapshot the snapshot's value.
StagedRowsReconstruct ==
  pc \in {"health", "journal"} /\ Parses(input) /\ trackingOk /\ spoolOk
    => Consistent(input)

\* The presence log can always be replayed, and gives the membership in memory.
PresenceReplayable ==
  /\ presenceLog.valid
  /\ observing /\ presenceDay = day => presenceLog.members = members

\* "No withdrawals are invented across those gaps": a delta directly follows the
\* record of the preceding poll; after any gap there is a new baseline.
DeltaFollowsPoll ==
  [][ presenceLog'.kind = "delta" /\ presenceLog' # presenceLog
        => presenceLog.poll = poll - 1 ]_vars

\* An event claims only what is on disk: its raw record can be read back, its presence
\* record is the last of the log, and its emitted rows are staged.
JournalBacked ==
  event.poll = poll /\ poll > 0 /\ pc = "idle" /\ input.kind # "lost" =>
    /\ event.rawArchived => rawHas
    /\ event.presenceOk => /\ presenceLog.poll = poll
                           /\ presenceLog.members = Present(input.snapshot)
    /\ \A t \in event.emitted : staged[t] = input.snapshot[t]

\* No raw record is ever appended behind a torn one: a torn log that may still grow
\* is marked for repair while the process runs.
TornTailsMarked ==
  pc # "down" => \A d \in day..MaxDay : rawTail[d] = "torn" => d \in needsRepair

\* The state of the auxiliary entities has no Parquet form: every state a poll reports
\* with raw_ok, and the one the collector regards as archived, is in a raw record.
AuxiliaryArchived ==
  /\ auxSignature # None => auxSignature \in rawAux
  /\ pc = "journal" /\ Parses(input) /\ rawOk => input.aux \in rawAux

\* The response can be had again from the raw log, or from rows and presence records.
Reconstructible ==
  \/ rawHas
  \/ /\ Parses(input) /\ Consistent(input)
     /\ presenceLog.poll = poll /\ presenceLog.members = Present(input.snapshot)

\* One thing going wrong never loses a response: after an unusable response, or after
\* one failed call, it is reconstructible, and archived if it has no event.
OneFaultLosesNothing ==
  pc = "idle" /\ input.kind # "lost"
      /\ pollFaults + (IF input.kind = "full" THEN 0 ELSE 1) <= 1 =>
    /\ Reconstructible
    /\ rawHas \/ event.poll = poll \/ raised

\* However much fails, a response is never lost without its event saying raw_ok = false.
NoSilentLoss ==
  pc = "idle" /\ input.kind # "lost" /\ event.poll = poll /\ event.rawOk => Reconstructible
================================================================================
