---------------------------- MODULE EvidenceArchive ----------------------------
(***************************************************************************)
(* What the archive promises for one completed UTC date.  Everything that  *)
(* was collected for the date is readable on the collector's disk until it *)
(* is pinned off-site as a whole; from then on, and only then, pieces of   *)
(* the local copy may go.  ArchiveMaintenance implements this with spool   *)
(* commits, compaction, manifests, backups and retention, any of which may *)
(* fail or be cut off.                                                     *)
(***************************************************************************)

CONSTANT
  Evidence      \* everything collected for the date

VARIABLES
  local,        \* what can be read on the collector's disk
  pinned        \* what the receipt's remote revision holds

archiveVars == <<local, pinned>>

Init ==
  /\ local = Evidence
  /\ pinned = {}

Pin ==
  /\ local = Evidence /\ pinned = {}
  /\ pinned' = Evidence
  /\ UNCHANGED local

Evict(pieces) ==
  /\ pinned = Evidence
  /\ local' = local \ pieces
  /\ UNCHANGED pinned

Next == Pin \/ \E pieces \in SUBSET Evidence : Evict(pieces)

Safety == Init /\ [][Next]_archiveVars

Spec == Safety /\ WF_archiveVars(Pin)
================================================================================
