------------------------------- MODULE RawLog -------------------------------
(***************************************************************************)
(* One raw log, b/storage/raw_log.py, call by call: append_record, the     *)
(* repair of its tail, and the exporter (LatestVehicleFrame) that reads    *)
(* the file behind its checkpoint while the collector writes to it.        *)
(*                                                                         *)
(* A record is two pieces long, so that it can be torn, and offsets count  *)
(* pieces. A reader cannot find its way past a torn record: its length     *)
(* field points into the bytes of the next one.                            *)
(***************************************************************************)
EXTENDS Integers, Sequences, FiniteSetsExt

CONSTANTS
  MaxPolls,    \* bound: responses to archive
  MaxFaults,   \* bound: calls that raise
  MaxCrashes   \* bound: deaths of the process, with or without the machine

ASSUME BoundsAssumption == /\ MaxPolls \in Nat
                           /\ MaxFaults \in Nat
                           /\ MaxCrashes \in Nat

VARIABLES
  log,         \* the pieces in the file
  synced,      \* how many of them an fsync has made durable
  checkpoint,  \* valid_bytes; 0 also stands for a missing checkpoint file
  sidecar,     \* the corrupt-tail file being written, not yet durable
  forensic,    \* the contents of durable corrupt-tail files
  pc,          \* where the collector is in append_record or in the repair
  poll,        \* the response it works on
  appending,   \* a repair is followed by an append (not at startup)
  suspect,     \* the path is in raw_needs_repair
  end,         \* exporter: the checkpoint it has read, -1 before
  offset,      \* exporter: self.offset
  frame,       \* exporter: the response self.latest holds, 0 if None
  acked,       \* history: responses whose append_record returned
  cut,         \* history: pieces a repair has truncated
  outrun,      \* history: a power loss took bytes below the checkpoint
  faults, crashes

file == <<log, synced, checkpoint>>
exporter == <<end, offset, frame>>
vars == <<file, sidecar, forensic, pc, poll, appending, suspect, exporter,
          acked, cut, outrun, faults, crashes>>

Pieces == (1..MaxPolls) \X {"first", "rest"}
Record(p) == <<<<p, "first">>, <<p, "rest">>>>
Torn(p) == <<<<p, "first">>>>

TypeOK ==
  /\ log \in Seq(Pieces)
  /\ synced \in 0..Len(log)
  /\ checkpoint \in Nat
  /\ sidecar \in Seq(Pieces)
  /\ forensic \subseteq Pieces
  /\ pc \in {"idle", "repair", "copy", "sync", "truncate", "bless",
             "write", "fsync", "checkpoint"}
  /\ poll \in 0..MaxPolls
  /\ appending \in BOOLEAN
  /\ suspect \in BOOLEAN
  /\ end \in {-1} \cup Nat
  /\ offset \in Nat
  /\ frame \in 0..MaxPolls
  /\ acked \subseteq 1..MaxPolls
  /\ cut \subseteq Pieces
  /\ outrun \in BOOLEAN
  /\ faults \in 0..MaxFaults
  /\ crashes \in 0..MaxCrashes

Init ==
  /\ log = <<>> /\ synced = 0 /\ checkpoint = 0
  /\ sidecar = <<>> /\ forensic = {}
  /\ pc = "idle" /\ poll = 0 /\ appending = FALSE /\ suspect = FALSE
  /\ end = -1 /\ offset = 0 /\ frame = 0
  /\ acked = {} /\ cut = {} /\ outrun = FALSE
  /\ faults = 0 /\ crashes = 0

\* The offsets at which a scan that starts at from finds a record to end.
Readable(from) ==
  {n \in from+2 .. Len(log) :
     /\ (n - from) % 2 = 0
     /\ \A i \in from+2 .. n : (i - from) % 2 = 0 =>
          SubSeq(log, i - 1, i) = Record(log[i][1])}

\* Where a scan stops that starts at the checkpoint, or at the beginning if
\* the checkpoint lies beyond the end of the file.
ScanStart == IF checkpoint <= Len(log) THEN checkpoint ELSE 0
Valid == Max({ScanStart} \cup Readable(ScanStart))

----------------------------------------------------------------------------
\* append_record, as _archive_raw calls it: a suspect log is repaired first,
\* and a failed response may be tried again (force).

\* Mutant: appends to a suspect log.
Attempt_Unrepaired ==
  /\ pc = "idle"
  /\ poll' \in ({poll, poll + 1} \cap 1..MaxPolls) \ acked
  /\ appending' = TRUE
  /\ pc' = "write"
  /\ UNCHANGED <<file, sidecar, forensic, suspect, exporter, acked, cut,
                 outrun, faults, crashes>>

Attempt ==
  /\ pc = "idle"
  /\ poll' \in ({poll, poll + 1} \cap 1..MaxPolls) \ acked
  /\ appending' = TRUE
  /\ pc' = IF suspect THEN "repair" ELSE "write"
  /\ UNCHANGED <<file, sidecar, forensic, suspect, exporter, acked, cut,
                 outrun, faults, crashes>>

Write ==
  /\ pc = "write"
  /\ log' = log \o Record(poll)
  /\ pc' = "fsync"
  /\ UNCHANGED <<synced, checkpoint, sidecar, forensic, poll, appending,
                 suspect, exporter, acked, cut, outrun, faults, crashes>>

Fsync ==
  /\ pc = "fsync"
  /\ synced' = Len(log)
  /\ pc' = "checkpoint"
  /\ UNCHANGED <<log, checkpoint, sidecar, forensic, poll, appending, suspect,
                 exporter, acked, cut, outrun, faults, crashes>>

WriteCheckpoint ==
  /\ pc = "checkpoint"
  /\ checkpoint' = Len(log)
  /\ acked' = acked \cup {poll}
  /\ pc' = "idle"
  /\ UNCHANGED <<log, synced, sidecar, forensic, poll, appending, suspect,
                 exporter, cut, outrun, faults, crashes>>

\* What an interrupted call leaves in the file.
Interrupted ==
  \/ /\ log' \in {log} \cup (IF pc = "write"
                               THEN {log \o Torn(poll)} ELSE {})
     /\ UNCHANGED checkpoint
  \/ /\ pc \in {"checkpoint", "bless"}
     /\ checkpoint' = Len(log)
     /\ UNCHANGED log

\* The call raises: the path is suspect from then on.
Raise ==
  /\ pc # "idle"
  /\ faults < MaxFaults
  /\ faults' = faults + 1
  /\ Interrupted
  /\ suspect' = TRUE
  /\ sidecar' = <<>>
  /\ pc' = "idle"
  /\ UNCHANGED <<synced, forensic, poll, appending, exporter, acked, cut,
                 outrun, crashes>>

----------------------------------------------------------------------------
\* repair_truncated_tail

EndRepair ==
  /\ suspect' = FALSE
  /\ pc' = IF appending THEN "write" ELSE "idle"

Scan ==
  /\ pc = "repair"
  /\ IF checkpoint = Len(log) THEN EndRepair
     ELSE /\ pc' = IF Valid = Len(log) THEN "bless" ELSE "copy"
          /\ UNCHANGED suspect
  /\ UNCHANGED <<file, sidecar, forensic, poll, appending, exporter, acked,
                 cut, outrun, faults, crashes>>

Copy ==
  /\ pc = "copy"
  /\ sidecar' = SubSeq(log, Valid + 1, Len(log))
  /\ pc' = "sync"
  /\ UNCHANGED <<file, forensic, poll, appending, suspect, exporter, acked,
                 cut, outrun, faults, crashes>>

Contents(s) == {s[i] : i \in 1..Len(s)}

\* Mutant: goes on although the directory could not be synced.
SyncDirectory_Lenient ==
  /\ pc = "sync"
  /\ pc' = "truncate"
  /\ UNCHANGED <<file, sidecar, forensic, poll, appending, suspect, exporter,
                 acked, cut, outrun, faults, crashes>>

SyncDirectory ==
  /\ pc = "sync"
  /\ forensic' = forensic \cup Contents(sidecar)
  /\ sidecar' = <<>>
  /\ pc' = "truncate"
  /\ UNCHANGED <<file, poll, appending, suspect, exporter, acked, cut, outrun, faults,
                 crashes>>

Truncate ==
  /\ pc = "truncate"
  /\ log' = SubSeq(log, 1, Valid)
  /\ synced' = Valid
  /\ cut' = cut \cup Contents(SubSeq(log, Valid + 1, Len(log)))
  /\ pc' = "bless"
  /\ UNCHANGED <<checkpoint, sidecar, forensic, poll, appending, suspect,
                 exporter, acked, outrun, faults, crashes>>

\* The checkpoint of a clean or repaired log; a clean one is not fsynced.
Bless ==
  /\ pc = "bless"
  /\ checkpoint' = Len(log)
  /\ EndRepair
  /\ UNCHANGED <<log, synced, sidecar, forensic, poll, appending, exporter,
                 acked, cut, outrun, faults, crashes>>

----------------------------------------------------------------------------
\* Deaths. A restart repairs the log before anything else
\* (recover_recent_raw_tails) and forgets that it was suspect.

Restarting ==
  /\ crashes < MaxCrashes
  /\ crashes' = crashes + 1
  /\ sidecar' = <<>>
  /\ pc' = "repair"
  /\ appending' = FALSE
  /\ suspect' = FALSE

Kill ==
  /\ Restarting
  /\ Interrupted
  /\ UNCHANGED <<synced, forensic, poll, exporter, acked, cut, outrun, faults>>

\* The machine goes down: of the bytes not fsynced a prefix remains. The
\* exporter starts anew.
PowerLoss ==
  /\ Restarting
  /\ \E n \in synced..Len(log) : log' = SubSeq(log, 1, n)
  /\ synced' = Len(log')
  /\ outrun' = (outrun \/ checkpoint > Len(log'))
  /\ end' = -1 /\ offset' = 0 /\ frame' = 0
  /\ UNCHANGED <<checkpoint, forensic, poll, acked, cut, faults>>

----------------------------------------------------------------------------
\* LatestVehicleFrame.read: the checkpoint first, the file afterwards.

\* Mutant: reads whatever the file holds.
ReadCheckpoint_FileSize ==
  /\ end = -1
  /\ end' = Len(log)
  /\ UNCHANGED <<file, sidecar, forensic, pc, poll, appending, suspect,
                 offset, frame, acked, cut, outrun, faults, crashes>>

ReadCheckpoint ==
  /\ end = -1
  /\ end' = checkpoint
  /\ UNCHANGED <<file, sidecar, forensic, pc, poll, appending, suspect,
                 offset, frame, acked, cut, outrun, faults, crashes>>

\* A checkpoint that lies behind what was read before starts over; a torn
\* piece below it or a file that is too short raises and changes no more.
ReadFrames ==
  /\ end # -1
  /\ end' = -1
  /\ LET again == end < offset
         from == IF again THEN 0 ELSE offset
         intact == end \in Readable(from)
     IN  CASE end > Len(log) -> UNCHANGED <<offset, frame>>
           [] end <= Len(log) /\ intact ->
                offset' = end /\ frame' = log[end][1]
           [] OTHER -> /\ offset' = from
                       /\ frame' = IF again THEN 0 ELSE frame
  /\ UNCHANGED <<file, sidecar, forensic, pc, poll, appending, suspect, acked,
                 cut, outrun, faults, crashes>>

----------------------------------------------------------------------------
Collector ==
  \/ Attempt \/ Write \/ Fsync \/ WriteCheckpoint \/ Raise
  \/ Scan \/ Copy \/ SyncDirectory \/ Truncate \/ Bless

Next == Collector \/ Kill \/ PowerLoss \/ ReadCheckpoint \/ ReadFrames

Spec == Init /\ [][Next]_vars

----------------------------------------------------------------------------
\* A response whose append_record returned can be read back for good:
\* whatever is torn, cut off, repaired or lost with the machine afterwards,
\* iter_records finds it before it meets a torn piece.
AckedReadable == acked \subseteq {log[n][1] : n \in Readable(0)}

\* "The detached bytes are never discarded": whatever a repair truncates is
\* in a durable forensic file, power losses included.
TailsPreserved == cut \subseteq forensic

\* The frame an exporter holds is a committed one for as long as it holds it:
\* the record at its offset, below the checkpoint, in the part of the log that
\* reads back, however often the collector fails, dies or repairs meanwhile.
\* Not so once a power loss took bytes that the checkpoint vouched for: a repair
\* that finds a clean tail moves the checkpoint over it without an fsync, although
\* only appends that were forced to disk are said to advance it.
ExporterHoldsCommitted ==
  frame # 0 /\ ~outrun => /\ offset \in Readable(0)
                          /\ offset <= checkpoint
                          /\ log[offset][1] = frame
=============================================================================
