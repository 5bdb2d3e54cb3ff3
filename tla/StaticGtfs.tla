----------------------------- MODULE StaticGtfs -----------------------------
(***************************************************************************)
(* The static GTFS archive, b/archive/static_gtfs.py, as                   *)
(* MaintenanceWorker.maintain_static_gtfs drives it: indexing the dated    *)
(* archives of the old collector, the daily check that downloads and       *)
(* installs a version, and the lookups that join observations to versions. *)
(*                                                                         *)
(* A version is its digest. Instants are the passes of the maintenance     *)
(* loop; the dated archives lie before the first one.                      *)
(***************************************************************************)
EXTENDS Integers, Sequences, FiniteSets

CONSTANTS
  Versions,     \* contents the server may offer
  LegacyDates,  \* the dates of budapest_gtfs_*.zip, integers up to 0
  Horizon,      \* bound: how many dates back they may lie
  Interval,     \* check_interval_seconds, in passes; retry_seconds is one pass
  MaxTime,      \* bound: passes
  MaxFaults,    \* bound: calls that raise
  MaxCrashes    \* bound: deaths of the maintenance process

\* A digest is neither null nor the name of a dated archive.
ASSUME StaticAssumption == /\ LegacyDates \subseteq 1 - Horizon .. 0
                           /\ "none" \notin Versions
                           /\ Versions \cap LegacyDates = {}
                           /\ Interval \in Nat \ {0}
                           /\ {Horizon, MaxTime} \subseteq Nat
                           /\ {MaxFaults, MaxCrashes} \subseteq Nat

VARIABLES
  served,     \* what the server offers
  files,      \* the archives on disk, by path: what each contains
  history,    \* the lines of history.jsonl
  unended,    \* how the last line ends: "no" separator is missing, or the text
              \* of the line is "torn" or "bare" (complete, but no separator)
  state,      \* state.json
  pc,         \* where maintain_static_gtfs is
  now,        \* the current pass
  adding,     \* dated archives this pass still has to look at
  added,      \* this pass has indexed one of them
  download,   \* the validated download: its digest and its destination
  observed,   \* history: <<instant, digest>> of every check that returned
  tears,      \* history: how often an append left an incomplete line
  faults, crashes

vars == <<served, files, history, unended, state, pc, now, adding, added,
          download, observed, tears, faults, crashes>>
counters == <<faults, crashes>>

None == "none"
\* Dated archives are named by their date, the other ones by their digest.
Paths == LegacyDates \cup Versions
Junk == [at |-> 0, sha256 |-> None, path |-> None, source |-> None]
Event(at, d, path, source) ==
  [at |-> at, sha256 |-> d, path |-> path, source |-> source]

Init ==
  /\ served \in Versions
  /\ files \in [LegacyDates -> Versions]
  /\ history = <<>> /\ unended = "no"
  /\ state = [latest |-> None, path |-> None, success |-> 0, attempt |-> 0]
  /\ pc = "idle" /\ now = 0 /\ adding = {} /\ added = FALSE
  /\ download = [sha256 |-> None, path |-> None]
  /\ observed = {} /\ tears = 0 /\ faults = 0 /\ crashes = 0

----------------------------------------------------------------------------
\* history.jsonl. The lines that are no JSON are skipped (StaticGtfsStore.history).
Readable == {i \in 1..Len(history) : history[i].sha256 # None}
Entries == {history[i] : i \in Readable}

\* Two appends on one line make one line that is no JSON.
Appended(event) ==
  IF unended = "no" THEN Append(history, event)
  ELSE [history EXCEPT ![Len(history)] = Junk]

AppendLine(event) == history' = Appended(event) /\ unended' = "no"

\* The append stops inside the line, or in front of the separator.
BreakLine(event) ==
  /\ tears' = tears + 1
  /\ \/ history' = Appended(Junk) /\ unended' = "torn"
     \/ history' = Appended(event) /\ unended' = "bare"

----------------------------------------------------------------------------
\* migrate_legacy_archives, at the start of each pass.

BeginPass ==
  /\ pc = "idle"
  /\ now < MaxTime
  /\ now' = now + 1
  /\ pc' = "index"
  /\ adding' = LegacyDates \ {e.path : e \in Entries}
  /\ added' = FALSE
  /\ UNCHANGED <<served, files, history, unended, state, download, observed,
                 tears, counters>>

LegacyEvent(date) == Event(date, files[date], date, "legacy")

Index ==
  /\ pc = "index"
  /\ \E date \in adding :
       /\ \A other \in adding : date <= other
       /\ AppendLine(LegacyEvent(date))
       /\ adding' = adding \ {date}
  /\ added' = TRUE
  /\ UNCHANGED <<served, files, state, pc, now, download, observed, tears, counters>>

Newest == {e \in Entries : \A other \in Entries : e.at >= other.at}

\* The state names the newest version that is on record. If there is none,
\* because a merged line is all the history holds, max() raises and the process
\* ends; nothing around the call catches that.
EndIndex ==
  /\ pc = "index" /\ adding = {}
  /\ IF added /\ Newest # {}
       THEN \E e \in Newest :
              state' = [state EXCEPT !.latest = e.sha256, !.path = e.path]
       ELSE UNCHANGED state
  /\ pc' = IF added /\ Newest = {} THEN "idle" ELSE "due"
  /\ UNCHANGED <<served, files, history, unended, now, adding, added, download,
                 observed, tears, counters>>

----------------------------------------------------------------------------
\* due, check and record_failure

Due ==
  /\ state.success # 0 => now - state.success >= Interval
  /\ state.attempt # 0 => now - state.attempt >= 1

NotDue ==
  /\ pc = "due" /\ ~Due
  /\ pc' = "idle"
  /\ UNCHANGED <<served, files, history, unended, state, now, adding, added,
                 download, observed, tears, counters>>

Download ==
  /\ pc = "due" /\ Due
  /\ download' = [sha256 |-> served, path |-> None]
  /\ pc' = "install"
  /\ UNCHANGED <<served, files, history, unended, state, now, adding, added,
                 observed, tears, counters>>

\* Mutant: takes the last event, whatever its content.
Destination_Unmatched ==
  IF Readable = {} THEN download.sha256
  ELSE history[CHOOSE i \in Readable : \A j \in Readable : i >= j].path

\* The last event with this content says where it is; else it is a new version.
Destination ==
  LET same == {i \in Readable : history[i].sha256 = download.sha256}
  IN  IF same = {} THEN download.sha256
      ELSE history[CHOOSE i \in same : \A j \in same : i >= j].path

Installed == [p \in DOMAIN files \cup {Destination} |->
                IF p \in DOMAIN files THEN files[p] ELSE download.sha256]

Install ==
  /\ pc = "install"
  /\ files' = Installed
  /\ download' = [download EXCEPT !.path = Destination]
  /\ pc' = "append"
  /\ UNCHANGED <<served, history, unended, state, now, adding, added, observed,
                 tears, counters>>

CheckEvent == Event(now, download.sha256, download.path, "check")

\* Mutant: records changes only.
AppendEvent_IfChanged ==
  /\ pc = "append"
  /\ IF download.sha256 = state.latest THEN UNCHANGED <<history, unended>>
                                       ELSE AppendLine(CheckEvent)
  /\ pc' = "state"
  /\ UNCHANGED <<served, files, state, now, adding, added, download, observed,
                 tears, counters>>

AppendEvent ==
  /\ pc = "append"
  /\ AppendLine(CheckEvent)
  /\ pc' = "state"
  /\ UNCHANGED <<served, files, state, now, adding, added, download, observed,
                 tears, counters>>

WriteState ==
  /\ pc = "state"
  /\ state' = [latest |-> download.sha256, path |-> download.path,
               success |-> now, attempt |-> now]
  /\ observed' = observed \cup {<<now, download.sha256>>}
  /\ pc' = "idle"
  /\ UNCHANGED <<served, files, history, unended, now, adding, added, download,
                 tears, counters>>

\* A call of check() raises (or the download is no valid archive).
Fail ==
  /\ pc \in {"due", "install", "append", "state"}
  /\ pc = "due" => Due
  /\ faults < MaxFaults
  /\ faults' = faults + 1
  /\ \/ UNCHANGED <<history, unended, tears>>
     \/ pc = "append" /\ BreakLine(CheckEvent)
  /\ pc' = "failed"
  /\ UNCHANGED <<served, files, state, now, adding, added, download, observed,
                 crashes>>

RecordFailure ==
  /\ pc = "failed"
  /\ state' = [state EXCEPT !.attempt = now]
  /\ pc' = "idle"
  /\ UNCHANGED <<served, files, history, unended, now, adding, added, download,
                 observed, tears, counters>>

\* The process dies, or a call outside the try block of the check raises,
\* which ends it as well. It is restarted.
Die ==
  /\ pc # "idle"
  /\ crashes < MaxCrashes
  /\ crashes' = crashes + 1
  /\ \/ UNCHANGED <<history, unended, tears>>
     \/ pc = "append" /\ BreakLine(CheckEvent)
     \/ /\ pc = "index"
        /\ \E date \in adding : /\ \A other \in adding : date <= other
                                /\ BreakLine(LegacyEvent(date))
  /\ pc' = "idle"
  /\ UNCHANGED <<served, files, state, now, adding, added, download, observed,
                 faults>>

\* BKK publishes another version.
Publish ==
  /\ pc = "idle"
  /\ served' \in Versions \ {served}
  /\ UNCHANGED <<files, history, unended, state, pc, now, adding, added, download,
                 observed, tears, counters>>

Next ==
  \/ BeginPass \/ Index \/ EndIndex \/ NotDue \/ Download \/ Install
  \/ AppendEvent \/ WriteState \/ Fail \/ RecordFailure \/ Die \/ Publish

Spec == Init /\ [][Next]_vars

----------------------------------------------------------------------------
\* Lookups

Instants == -Horizon..MaxTime

LatestOf(entries) == {e \in entries : \A other \in entries : other.at <= e.at}

\* observed_version_at: what had been observed by then.
ObservedAt(t) == LatestOf({e \in Entries : e.at <= t})

\* observed_timeline over [start, end): the boundaries, ...
Boundaries(start, end) ==
  ObservedAt(start) \cup {e \in Entries : start < e.at /\ e.at < end}

SameSegment(a, b) ==
  a.sha256 = b.sha256 /\ (a.source = "legacy" <=> b.source = "legacy")

\* ... of which those that repeat their predecessor are merged into it, ...
\* Mutant: drops what any earlier boundary showed.
Kept_Globally(start, end) ==
  {e \in Boundaries(start, end) :
     \A p \in Boundaries(start, end) : p.at < e.at => ~SameSegment(p, e)}

Kept(start, end) ==
  {e \in Boundaries(start, end) :
     \A p \in LatestOf({b \in Boundaries(start, end) : b.at < e.at}) :
       ~SameSegment(p, e)}

\* ... and the segment that covers an instant of the range.
Covering(start, end, t) == LatestOf({e \in Kept(start, end) : e.at <= t})

\* RouteCatalog.read: the exporter takes the version the state names.
CatalogAccepts == state.path \in DOMAIN files /\ files[state.path] = state.latest

----------------------------------------------------------------------------
\* Whatever the history or the state names is there with those bytes, at each
\* point where the process may die: a join, a backup and the exporter's route
\* catalog never meet a missing or a different archive.
VersionsKept ==
  /\ \A e \in Entries : e.path \in DOMAIN files /\ files[e.path] = e.sha256
  /\ state.latest # None => CatalogAccepts

Missing == {o \in observed : ~\E e \in Entries : e.at = o[1] /\ e.sha256 = o[2]}

\* The history does not record "every successful observation": the event after
\* an interrupted append lands on its line and is skipped with it. Each such
\* append costs the record of at most one successful check, never more.
OneTearLosesOne == Cardinality(Missing) <= tears

\* The two lookups agree: at every instant of a range the timeline names the
\* version that observed_version_at names, or neither names one.
TimelineAgrees ==
  \A start, end, t \in Instants :
    start <= t /\ t < end =>
      {<<e.sha256, e.source = "legacy">> : e \in Covering(start, end, t)}
        = {<<e.sha256, e.source = "legacy">> : e \in ObservedAt(t)}
----------------------------------------------------------------------------
\* Types.

Events == [at : 1 - Horizon .. MaxTime, sha256 : Versions, path : Paths,
           source : {"legacy", "check"}]

TypeOK ==
  /\ served \in Versions
  /\ DOMAIN files \subseteq Paths /\ files \in [DOMAIN files -> Versions]
  /\ history \in Seq(Events \cup {Junk})
  /\ unended \in {"no", "torn", "bare"}
  /\ unended # "no" => history # <<>>
  /\ DOMAIN state = {"latest", "path", "success", "attempt"}
  /\ state.latest \in Versions \cup {None}
  /\ DOMAIN download = {"sha256", "path"}
  /\ pc \in {"idle", "index", "due", "install", "append", "state", "failed"}
  /\ now \in 0..MaxTime
  /\ pc # "idle" => now # 0
  /\ adding \subseteq LegacyDates
  /\ pc \in {"install", "append", "state"} => download.sha256 \in Versions
  /\ observed \subseteq (1..MaxTime) \X Versions
  /\ IsFiniteSet(observed)
  /\ tears \in Nat
=============================================================================
