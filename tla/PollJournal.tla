----------------------------- MODULE PollJournal -----------------------------
(***************************************************************************)
(* One poll journal, b/storage/poll_journal.py: append_poll_jsonl, which   *)
(* repairs the tail, appends a line and moves the checkpoint, and          *)
(* repair_jsonl_tail, which the collector also runs at startup.            *)
(*                                                                         *)
(* The text of an event is two pieces and its line ends with a separator,  *)
(* so an append can stop inside the text, between the two, or after them.  *)
(***************************************************************************)
EXTENDS Integers, Sequences

CONSTANTS
  MaxEvents,   \* bound: events to append
  MaxFaults,   \* bound: calls that raise
  MaxCrashes   \* bound: deaths of the process, with or without the machine

ASSUME BoundsAssumption == /\ MaxEvents \in Nat
                           /\ MaxFaults \in Nat
                           /\ MaxCrashes \in Nat

VARIABLES
  journal,     \* the pieces in the file
  synced,      \* how many of them an fsync has made durable
  checkpoint,  \* valid_bytes, NoCheckpoint if there is no checkpoint file
  pc,          \* where the collector is
  event,       \* the event being appended, 0 before the first
  appending,   \* a repair is followed by an append (not at startup)
  acked,       \* history: events whose append returned
  faults, crashes

vars == <<journal, synced, checkpoint, pc, event, appending, acked, faults,
          crashes>>

NoCheckpoint == -1
Separator == <<0, "newline">>
Text(e) == <<<<e, "first">>, <<e, "rest">>>>
Events == 1..MaxEvents

TypeOK ==
  /\ journal \in Seq((Events \X {"first", "rest"}) \cup {Separator})
  /\ synced \in 0..Len(journal)
  /\ checkpoint \in {NoCheckpoint} \cup Nat
  /\ pc \in {"idle", "repair", "bless", "append", "fsync", "checkpoint",
             "refused"}
  /\ event \in 0..MaxEvents
  /\ appending \in BOOLEAN
  /\ acked \subseteq Events
  /\ faults \in 0..MaxFaults
  /\ crashes \in 0..MaxCrashes

Init ==
  /\ journal = <<>> /\ synced = 0 /\ checkpoint = NoCheckpoint
  /\ pc = "idle" /\ event = 0 /\ appending = FALSE
  /\ acked = {} /\ faults = 0 /\ crashes = 0

----------------------------------------------------------------------------
\* Lines, by where they start; the last one may lack its separator.
LineStart(n) == n = 0 \/ journal[n] = Separator
LineEnd(n) == n = Len(journal) \/ journal[n] = Separator

\* A line is the pieces after from, up to to.
Lines(start) ==
  {line \in (start..Len(journal)) \X (start..Len(journal)) :
     /\ line[1] < line[2] /\ LineStart(line[1]) /\ LineEnd(line[2])
     /\ \A n \in line[1]+1 .. line[2]-1 : journal[n] # Separator}

\* json.loads takes the text of one event, with or without its separator.
Holds(line, e) ==
  SubSeq(journal, line[1] + 1, line[2]) \in {Text(e), Append(Text(e), Separator)}
Parses(line) == \E e \in Events : Holds(line, e)

Bare(line) == journal[line[2]] # Separator

\* _last_line_start skips the final separator before it looks for another.
LastLineStart ==
  CHOOSE n \in 0..Len(journal)-1 :
    /\ LineStart(n)
    /\ \A m \in n+1 .. Len(journal)-1 : ~LineStart(m)

\* Where the repair starts to validate.
Trusted ==
  IF checkpoint \in 0..Len(journal) THEN checkpoint
  ELSE IF journal = <<>> THEN 0 ELSE LastLineStart

Invalid == {line \in Lines(Trusted) : ~Parses(line)}

----------------------------------------------------------------------------
\* repair_jsonl_tail

AfterRepair == IF appending THEN "append" ELSE "idle"

\* Mutant: leaves the line without its separator.
AddSeparator_Never == UNCHANGED journal

\* A complete event that lacks only its separator is kept.
AddSeparator ==
  journal' = IF \E line \in Lines(Trusted) : Bare(line)
               THEN Append(journal, Separator) ELSE journal

\* The last line is copied to a durable forensic file, then cut off.
Detach(line) == journal' = SubSeq(journal, 1, line[1])

\* Interior corruption is refused: nothing is ever appended behind it.
\* Whatever was changed is fsynced; a clean tail is not.
Repair ==
  /\ pc = "repair"
  /\ IF checkpoint = Len(journal)
       THEN pc' = AfterRepair /\ UNCHANGED journal
       ELSE IF \E line \in Invalid : line[2] # Len(journal)
       THEN pc' = "refused" /\ UNCHANGED journal
       ELSE /\ pc' = "bless"
            /\ IF Invalid = {} THEN AddSeparator
                              ELSE \E line \in Invalid : Detach(line)
  /\ synced' = IF journal' = journal THEN synced ELSE Len(journal')
  /\ UNCHANGED <<checkpoint, event, appending, acked, faults, crashes>>

Bless ==
  /\ pc = "bless"
  /\ checkpoint' = Len(journal)
  /\ pc' = AfterRepair
  /\ UNCHANGED <<journal, synced, event, appending, acked, faults, crashes>>

----------------------------------------------------------------------------
\* append_poll_jsonl

Attempt ==
  /\ pc = "idle"
  /\ event < MaxEvents
  /\ event' = event + 1
  /\ appending' = TRUE
  /\ pc' = "repair"
  /\ UNCHANGED <<journal, synced, checkpoint, acked, faults, crashes>>

AppendLine ==
  /\ pc = "append"
  /\ journal' = journal \o Append(Text(event), Separator)
  /\ pc' = "fsync"
  /\ UNCHANGED <<synced, checkpoint, event, appending, acked, faults, crashes>>

Fsync ==
  /\ pc = "fsync"
  /\ synced' = Len(journal)
  /\ pc' = "checkpoint"
  /\ UNCHANGED <<journal, checkpoint, event, appending, acked, faults, crashes>>

WriteCheckpoint ==
  /\ pc = "checkpoint"
  /\ checkpoint' = Len(journal)
  /\ acked' = acked \cup {event}
  /\ pc' = "idle"
  /\ UNCHANGED <<journal, synced, event, appending, faults, crashes>>

\* What an interrupted call leaves behind.
Interrupted ==
  \/ /\ pc = "append"
     /\ \E n \in 1..2 : journal' = journal \o SubSeq(Text(event), 1, n)
     /\ UNCHANGED checkpoint
  \/ /\ pc \in {"checkpoint", "bless"}
     /\ checkpoint' = Len(journal)
     /\ UNCHANGED journal
  \/ UNCHANGED <<journal, checkpoint>>

Raise ==
  /\ pc \notin {"idle", "refused"}
  /\ faults < MaxFaults
  /\ faults' = faults + 1
  /\ Interrupted
  /\ pc' = "idle"
  /\ UNCHANGED <<synced, event, appending, acked, crashes>>

\* A restart checks the tail first, and goes on if that raises.
Restarting ==
  /\ crashes < MaxCrashes
  /\ crashes' = crashes + 1
  /\ pc' = "repair"
  /\ appending' = FALSE

Kill ==
  /\ Restarting
  /\ Interrupted
  /\ UNCHANGED <<synced, event, acked, faults>>

\* Of the bytes that were not fsynced a prefix remains.
PowerLoss ==
  /\ Restarting
  /\ \E n \in synced..Len(journal) : journal' = SubSeq(journal, 1, n)
  /\ synced' = Len(journal')
  /\ UNCHANGED <<checkpoint, event, acked, faults>>

Next ==
  \/ Attempt \/ Repair \/ Bless
  \/ AppendLine \/ Fsync \/ WriteCheckpoint
  \/ Raise \/ Kill \/ PowerLoss

Spec == Init /\ [][Next]_vars

----------------------------------------------------------------------------
\* The events iter_jsonl yields.
Readable == {e \in Events : \E line \in Lines(0) : Holds(line, e)}

\* An event whose append returned stays a line of its own, and the journal
\* can always take another one: no sequence of failed appends, deaths and
\* repairs merges two lines or leaves an invalid one in the middle, which
\* repair_jsonl_tail would refuse from then on.
JournalSound == acked \subseteq Readable /\ pc # "refused"
=============================================================================
