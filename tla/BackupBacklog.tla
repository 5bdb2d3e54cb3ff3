---------------------------- MODULE BackupBacklog ----------------------------
(***************************************************************************)
(* The worklist of the backup, over many dates (b = bkk_collector):        *)
(*                                                                         *)
(*   b/maintenance.py            which dates are taken up                  *)
(*   b/archive/backup.py         run_backlog, pending_dates, backup_date   *)
(*   b/cli/migrate_legacy.py     the tool that copies old dates and takes  *)
(*                               them off the worklist, run by hand beside *)
(*                                                                         *)
(* A date is a number, and its local files are of two kinds: those that    *)
(* the repository keeps as LFS objects and has the SHA-256 of, by their    *)
(* version, and ordinary Git files, of which it tells the size: the        *)
(* manifest, which every build writes anew, and the journals. A complete   *)
(* manifest lists the history of the static GTFS archive, which every      *)
(* check of it changes: the manifest is then stale, until the next build.  *)
(***************************************************************************)
EXTENDS Integers, FiniteSets, FiniteSetsExt

CONSTANTS
  Dates,        \* the UTC dates with local data, 1..n
  MaxPerRun,    \* BACKUP_MAX_DATES_PER_RUN
  Sizes,        \* the sizes that the ordinary Git files of a date may have
  MaxTroubles,  \* bound: checks of the static GTFS archive, manifests that come
                \* out as another text, calls that raise, and deaths of
                \* maintenance or of the tool, all together
  MaxTools      \* bound: runs of the tool

ASSUME BacklogAssumption ==
  /\ IsFiniteSet(Dates) /\ Dates = 1..Cardinality(Dates)
  /\ MaxPerRun \in Nat \ {0}
  /\ Sizes # {} /\ Sizes \subseteq Nat
  /\ {MaxTroubles, MaxTools} \subseteq Nat

VARIABLES
  today,
  \* files
  evidence,     \* what the collector left of a date
  content,      \* the version of its LFS files
  text,         \* its ordinary files: when they were last written, counted in
                \* troubles, and their size
  manifest,     \* its manifest: current, stale or none that is complete
  receipts,     \* what the remote_revision of its v2 receipt holds, or NoCopy
  inventory,    \* legacy_inventory.json: the dates with legacy_handled
  \* the maintenance process
  enabled,      \* both credentials are configured
  workerPc, worklist, uploads,
  \* the migration tool
  toolPc, draft, left, runs,
  hand,         \* the bytes of the upload under way
  \* the dataset repository
  remote,       \* what it holds of a date
  confirmed,    \* of the tool's run: the dates whose receipts confirm a copy
  held,         \* history, of the tool's run: the dates whose inventoried copy
                \* the repository has held since
  troubles

maintenance == <<enabled, workerPc, worklist, uploads>>
tool == <<toolPc, draft, left, runs, hand>>
local == <<today, evidence, content>>
built == <<manifest, text>>
copies == <<remote, held>>
report == <<confirmed, held>>
backlogVars == <<local, built, receipts, inventory, maintenance, tool, copies,
                 confirmed, troubles>>

\* A copy of a date: the versions of LFS files it has, and the ordinary files.
NoText == <<-1, -1>>
NoCopy == [data |-> {}, text |-> NoText]

\* lacking: no poll journals, or evidence is missing for good. staged: its spool
\* is not committed yet.
Kinds == {"lacking", "staged", "whole"}

BacklogInit ==
  /\ today = 1
  /\ evidence \in [Dates -> Kinds]
  /\ content = [d \in Dates |-> 0]
  /\ text = [d \in Dates |-> <<0, CHOOSE size \in Sizes : TRUE>>]
  /\ manifest = [d \in Dates |-> "none"]
  /\ receipts = [d \in Dates |-> NoCopy] /\ inventory = {}
  /\ enabled \in BOOLEAN
  /\ workerPc = "rest" /\ worklist = {} /\ uploads = 0
  /\ toolPc = "idle" /\ draft = {} /\ left = {} /\ runs = 0 /\ hand = NoCopy
  /\ remote = [d \in Dates |-> NoCopy] /\ held = {} /\ confirmed = {}
  /\ troubles = 0

Fault == troubles < MaxTroubles /\ troubles' = troubles + 1
Least(S) == Min(S)

----------------------------------------------------------------------------
\* Dates and their files

\* discover_completed_dates
Completed == {d \in Dates : d < today}

\* confirmed_dates
Confirmed == {d \in Dates : receipts[d] # NoCopy}

\* pending_dates
Pending == (Completed \ Confirmed) \ inventory

LocalCopy(d) == [data |-> {content[d]}, text |-> text[d]]

\* A copy of the date as it is on disk.
CopyOf(copy, d) == content[d] \in copy.data /\ copy.text = text[d]

Midnight ==
  /\ today <= Cardinality(Dates)
  /\ today' = today + 1
  /\ UNCHANGED <<evidence, content, built, receipts, inventory,
                 maintenance, tool, copies, confirmed, troubles>>

\* The collector's commit worker empties the spool of a date.
Commit(d) ==
  /\ evidence[d] = "staged"
  /\ evidence' = [evidence EXCEPT ![d] = "whole"]
  /\ content' = [content EXCEPT ![d] = @ + 1]
  /\ UNCHANGED <<today, built, receipts, inventory,
                 maintenance, tool, copies, confirmed, troubles>>

----------------------------------------------------------------------------
\* The maintenance loop

\* maintain_static_gtfs appends to the history and replaces the state, files
\* that every complete manifest lists.
CheckStatic ==
  /\ workerPc = "rest" /\ Fault
  /\ manifest' = [d \in Dates |-> IF manifest[d] = "current" THEN "stale"
                                                            ELSE manifest[d]]
  /\ UNCHANGED <<local, text, receipts, inventory, maintenance, tool,
                 copies, confirmed>>

\* build_daily_manifest writes the manifest, complete or not.
NewManifest(dates) ==
  manifest' = [d \in Dates |-> IF d \notin dates THEN manifest[d]
                               ELSE IF evidence[d] = "whole" THEN "current"
                               ELSE "none"]

\* It is another text each time; the model tells apart what follows a check of
\* the static archive, and counts what else it tells apart.
Build(dates) ==
  /\ NewManifest(dates)
  /\ \/ UNCHANGED <<text, troubles>>
     \/ /\ dates # {}
        /\ IF \E d \in dates : manifest[d] = "stale" THEN UNCHANGED troubles
                                                     ELSE Fault
        /\ \E size \in [dates -> Sizes] :
             text' = [d \in Dates |-> IF d \in dates THEN <<troubles', size[d]>>
                                                     ELSE text[d]]

\* _load_or_build_manifest: a complete one that still describes the files stays.
LoadOrBuild(d) ==
  IF evidence[d] = "whole" /\ manifest[d] = "current"
    THEN UNCHANGED <<built, troubles>> ELSE Build({d})

\* maintain_local_manifests: the newest dates, while there is no backup
NewestOf(S, n) == {d \in S : Cardinality({e \in S : e > d}) < n}

BuildLocalManifests ==
  /\ workerPc = "rest" /\ ~enabled
  /\ LET dates == {d \in NewestOf(Pending, MaxPerRun) : manifest[d] = "none"} IN
       \/ Build(dates)
       \/ \* the calls for some raise
          /\ Fault
          /\ \E failed \in SUBSET dates : NewManifest(dates \ failed)
          /\ UNCHANGED text
  /\ UNCHANGED <<local, receipts, inventory, maintenance, tool, copies,
                 confirmed>>

\* maintain_backups and run_backlog: oldest first
BeginBacklog ==
  /\ workerPc = "rest" /\ enabled
  /\ worklist' = Pending
  /\ uploads' = 0
  /\ workerPc' = "backlog"
  /\ UNCHANGED <<local, built, receipts, inventory, enabled, tool,
                 copies, confirmed, troubles>>

EndBacklog ==
  /\ workerPc = "backlog" /\ worklist = {}
  /\ workerPc' = "rest"
  /\ UNCHANGED <<local, built, receipts, inventory, enabled, worklist, uploads,
                 tool, copies, confirmed, troubles>>

\* Mutant: an incomplete date ends the run, as a failed upload does.
Manifest_Strict ==
  /\ workerPc = "backlog" /\ worklist # {}
  /\ LET d == Least(worklist) IN
       \/ /\ LoadOrBuild(d)
          /\ IF evidence[d] = "whole"
               THEN workerPc' = "upload" /\ UNCHANGED worklist
               ELSE worklist' = {} /\ UNCHANGED workerPc
       \/ /\ Fault
          /\ worklist' = worklist \ {d}
          /\ UNCHANGED <<built, workerPc>>
  /\ UNCHANGED <<local, receipts, inventory, enabled, uploads, tool, copies,
                 confirmed>>

\* A date that is incomplete, or whose manifest fails, is skipped.
Manifest ==
  /\ workerPc = "backlog" /\ worklist # {}
  /\ LET d == Least(worklist) IN
       \/ /\ LoadOrBuild(d)
          /\ IF evidence[d] = "whole"
               THEN workerPc' = "upload" /\ UNCHANGED worklist
               ELSE worklist' = worklist \ {d} /\ UNCHANGED workerPc
       \/ /\ Fault
          /\ worklist' = worklist \ {d}
          /\ UNCHANGED <<built, workerPc>>
  /\ UNCHANGED <<local, receipts, inventory, enabled, uploads, tool, copies,
                 confirmed>>

StopAtLimit ==
  /\ workerPc = "upload" /\ uploads = MaxPerRun
  /\ worklist' = {}
  /\ workerPc' = "backlog"
  /\ UNCHANGED <<local, built, receipts, inventory, enabled, uploads, tool,
                 copies, confirmed, troubles>>

\* An upload leaves other LFS files alone, which have other names, and replaces
\* the ordinary ones.
Onto(old, new) == [data |-> old.data \union new.data, text |-> new.text]

\* What the repository tells of a copy without a download.
Looks(copy, version, size) == version \in copy.data /\ copy.text[2] = size

Hold(d, copy) ==
  /\ remote' = [remote EXCEPT ![d] = copy]
  /\ held' = IF \E e \in draft : e.date = d /\ Looks(copy, e.version, e.size)
               THEN held \union {d} ELSE held

\* backup_date uploads what is not there already
Upload ==
  /\ workerPc = "upload" /\ uploads < MaxPerRun
  /\ uploads' = uploads + 1
  /\ LET d == Least(worklist) IN Hold(d, Onto(remote[d], LocalCopy(d)))
  /\ workerPc' = "verify"
  /\ UNCHANGED <<local, built, receipts, inventory, enabled, worklist, tool,
                 confirmed, troubles>>

\* Mutant: what was uploaded without an error needs no verification.
BackUp_Unverified ==
  /\ workerPc = "verify"
  /\ LET d == Least(worklist) IN
       /\ receipts' = [receipts EXCEPT ![d] = remote[d]]
       /\ worklist' = worklist \ {d}
  /\ workerPc' = "backlog"
  /\ UNCHANGED <<local, built, inventory, enabled, uploads, tool, copies,
                 confirmed, troubles>>

\* and publishes a receipt for the revision at which every hash is right.
BackUp ==
  /\ workerPc = "verify"
  /\ LET d == Least(worklist) IN
       /\ CopyOf(remote[d], d)
       /\ receipts' = [receipts EXCEPT ![d] = remote[d]]
       /\ worklist' = worklist \ {d}
  /\ workerPc' = "backlog"
  /\ UNCHANGED <<local, built, inventory, enabled, uploads, tool, copies,
                 confirmed, troubles>>

\* It fails on the way, perhaps with the ordinary files uploaded, which come
\* first, or all: the rest waits for the next run.
BackUpFails ==
  /\ \/ /\ workerPc = "upload" /\ uploads < MaxPerRun
        /\ LET d == Least(worklist) IN
             \/ UNCHANGED copies
             \/ Hold(d, [remote[d] EXCEPT !.text = text[d]])
             \/ Hold(d, Onto(remote[d], LocalCopy(d)))
     \/ workerPc = "verify" /\ UNCHANGED copies
  /\ worklist' = {}
  /\ workerPc' = "backlog"
  /\ UNCHANGED <<local, built, receipts, inventory, enabled, uploads, tool,
                 confirmed, troubles>>

\* The process is started again, perhaps with credentials.
Restart ==
  /\ Fault
  /\ enabled' \in {enabled, TRUE}
  /\ workerPc' = "rest" /\ worklist' = {} /\ uploads' = 0
  /\ UNCHANGED <<local, built, receipts, inventory, tool, copies,
                 confirmed>>

----------------------------------------------------------------------------
\* The migration tool: inventory(), then apply() unless it is a dry run

StartTool ==
  /\ toolPc = "idle" /\ runs < MaxTools
  /\ runs' = runs + 1
  /\ toolPc' = "inventory"
  /\ left' = Completed /\ draft' = {}
  /\ UNCHANGED <<local, built, receipts, inventory, maintenance,
                 hand, copies, confirmed, troubles>>

\* _is_v2_complete: every file is as a complete manifest lists it
IsV2Complete(d) == manifest[d] = "current"

\* Every date but a v2_complete one is to be handled as legacy, unless a file
\* could not be read or changed meanwhile.
Inventory ==
  /\ toolPc = "inventory" /\ left # {}
  /\ LET d == Least(left)
         Entry(readable) == [date |-> d, version |-> content[d],
                             size |-> text[d][2], complete |-> readable,
                             matched |-> content[d] \in remote[d].data]
     IN /\ left' = left \ {d}
        /\ \/ IsV2Complete(d) /\ UNCHANGED <<draft, held, troubles>>
           \/ /\ ~IsV2Complete(d)
              /\ held' = IF Looks(remote[d], content[d], text[d][2])
                          THEN held \union {d} ELSE held
              /\ \E readable \in BOOLEAN :
                   /\ draft' = draft \union {Entry(readable)}
                   /\ IF readable THEN UNCHANGED troubles ELSE Fault
  /\ UNCHANGED <<local, built, receipts, inventory, maintenance, toolPc, runs,
                 hand, remote, confirmed>>

EndReport ==
  draft' = {} /\ confirmed' = {} /\ held' = {}

EndInventory ==
  /\ toolPc = "inventory" /\ left = {}
  /\ \/ /\ toolPc' = "copy" /\ left' = {e.date : e \in draft}
        /\ UNCHANGED <<draft, report>>
     \/ /\ toolPc' = "idle" /\ UNCHANGED left
        /\ EndReport
  /\ UNCHANGED <<local, built, receipts, inventory, maintenance,
                 runs, hand, remote, troubles>>

EntryOf(d) == CHOOSE e \in draft : e.date = d

\* Upload the files as they are now: of the ordinary ones all, of the others
\* those that did not match when they were inventoried.
Copy ==
  /\ toolPc = "copy" /\ left # {}
  /\ LET d == Least(left) IN
       \/ /\ enabled
          /\ hand' = [LocalCopy(d) EXCEPT
                        !.data = IF EntryOf(d).matched THEN {} ELSE @]
          /\ toolPc' = "send"
          /\ UNCHANGED left
       \/ \* no credentials: a receipt that confirms nothing
          /\ ~enabled
          /\ left' = left \ {d}
          /\ UNCHANGED <<toolPc, hand>>
  /\ UNCHANGED <<local, built, receipts, inventory, maintenance, draft, runs,
                 copies, confirmed, troubles>>

\* They arrive, after whatever the worker did meanwhile; or uploads fail, of
\* some files or all, and the receipt confirms nothing.
Send ==
  /\ toolPc = "send"
  /\ LET d == Least(left)
         sent == Onto(remote[d], hand)
     IN \/ Hold(d, sent) /\ toolPc' = "confirm" /\ UNCHANGED left
        \/ /\ \/ UNCHANGED copies
              \/ Hold(d, [remote[d] EXCEPT !.text = sent.text])
              \/ Hold(d, [remote[d] EXCEPT !.data = sent.data])
              \/ Hold(d, sent)
           /\ toolPc' = "copy"
           /\ left' = left \ {d}
  /\ hand' = NoCopy
  /\ UNCHANGED <<local, built, receipts, inventory, maintenance, draft, runs,
                 confirmed, troubles>>

\* Mutant: what was uploaded without an error is confirmed.
Confirm_Unchecked ==
  /\ toolPc = "confirm"
  /\ LET d == Least(left)
     IN /\ confirmed' = confirmed \union {d}
        /\ left' = left \ {d}
  /\ toolPc' = "copy"
  /\ UNCHANGED <<local, built, receipts, inventory, maintenance, draft, runs,
                 hand, copies, troubles>>

\* The repository is asked again, and compared with the inventory: LFS objects
\* by their SHA-256, ordinary files by their size (checksum_unavailable).
Confirm ==
  /\ toolPc = "confirm"
  /\ LET d == Least(left)
         e == EntryOf(d)
     IN /\ confirmed' = IF Looks(remote[d], e.version, e.size)
                          THEN confirmed \union {d} ELSE confirmed
        /\ left' = left \ {d}
  /\ toolPc' = "copy"
  /\ UNCHANGED <<local, built, receipts, inventory, maintenance, draft, runs,
                 hand, copies, troubles>>

\* The inventory is written once, at the end.
WriteInventory ==
  /\ toolPc = "copy" /\ left = {}
  /\ inventory' = {e.date : e \in {x \in draft : x.complete}}
  /\ toolPc' = "idle" /\ EndReport
  /\ UNCHANGED <<local, built, receipts, maintenance, left, runs, hand,
                 remote, troubles>>

\* It is killed, or a call outside the loops raises.
ToolEnds ==
  /\ toolPc # "idle" /\ Fault
  /\ toolPc' = "idle" /\ EndReport /\ left' = {} /\ hand' = NoCopy
  /\ UNCHANGED <<local, built, receipts, inventory, maintenance,
                 runs, remote>>

----------------------------------------------------------------------------
MaintenanceStep ==
  \/ BuildLocalManifests \/ BeginBacklog \/ Manifest \/ StopAtLimit
  \/ EndBacklog \/ Upload \/ BackUp \/ BackUpFails

ToolStep ==
  \/ StartTool \/ Inventory \/ EndInventory \/ Copy \/ Send \/ Confirm
  \/ WriteInventory \/ ToolEnds

BacklogNext ==
  \/ Midnight \/ (\E d \in Dates : Commit(d)) \/ CheckStatic
  \/ MaintenanceStep \/ Restart \/ ToolStep

\* The loop runs on, and neither the uploads nor the calls after them fail for
\* ever.
Fairness == /\ WF_backlogVars(MaintenanceStep)
            /\ SF_backlogVars(Upload) /\ SF_backlogVars(BackUp)

BacklogSpec == BacklogInit /\ [][BacklogNext]_backlogVars /\ Fairness

----------------------------------------------------------------------------
\* "The worker retries older failures automatically": no date that can never
\* be complete, and no number of failed uploads, keeps a whole date from being
\* backed up, unless the tool has taken it off the worklist.
WholeDatesBackedUp ==
  <>[](\A d \in Completed :
         enabled /\ evidence[d] = "whole" => d \in Confirmed \union inventory)

\* "Remote path and size; SHA-256 additionally checked for LFS objects": what a
\* legacy receipt calls confirmed, the repository has held at one moment: the
\* LFS objects with the inventoried bytes beside ordinary files of the
\* inventoried size, whatever happened to the files between the inventory, the
\* upload and its arrival. That those had the inventoried bytes is not true: a
\* manifest rewritten at equal size is confirmed too.
LegacyClaimsHeld == confirmed \subseteq held

\* "Size and SHA-256 for every artifact at remote_revision": the revision that a
\* v2 receipt names holds the date's files as they are on disk for good, LFS
\* objects and ordinary files alike, although the tool may put older bytes onto
\* the same paths after the worker's upload, and a manifest may be rebuilt for
\* as long as there is no receipt.
ReceiptsPinned == \A d \in Confirmed : CopyOf(receipts[d], d)

----------------------------------------------------------------------------
\* Types.

Copies == [data : SUBSET Nat, text : (Nat \X Sizes) \cup {NoText}]
InventoryEntries == [date : Dates, version : Nat, size : Nat,
                     complete : BOOLEAN, matched : BOOLEAN]

BacklogTypeOK ==
  /\ today \in Nat
  /\ evidence \in [Dates -> Kinds]
  /\ content \in [Dates -> Nat]
  /\ text \in [Dates -> Nat \X Sizes]
  /\ manifest \in [Dates -> {"none", "stale", "current"}]
  /\ receipts \in [Dates -> Copies]
  /\ workerPc \in {"rest", "backlog", "upload", "verify"}
  /\ worklist \subseteq Dates
  /\ workerPc \in {"upload", "verify"} => worklist # {}
  /\ toolPc \in {"idle", "inventory", "copy", "send", "confirm"}
  /\ draft \subseteq InventoryEntries
  /\ left \subseteq Dates
  /\ toolPc \in {"send", "confirm"} => left # {}
  /\ hand \in Copies
  /\ remote \in [Dates -> Copies]
  /\ confirmed \subseteq Dates /\ held \subseteq Dates
  /\ troubles \in Nat
=============================================================================
