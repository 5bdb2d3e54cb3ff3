------------------------------ MODULE ParquetSink ------------------------------
(***************************************************************************)
(* What the durable spool promises to the rest of the system: the rows of  *)
(* an accepted poll become visible in Parquet exactly once.  A batch of    *)
(* accepted, unpublished polls appears atomically, nothing published is    *)
(* ever withdrawn, and the polls of a healthy partition do not wait        *)
(* forever.  SpoolCommit implements this specification on a directory of   *)
(* files that crashes and failing system calls can interrupt anywhere.     *)
(***************************************************************************)

CONSTANTS
  Polls,        \* everything that may ever be accepted
  Healthy       \* polls whose partition holds no unreadable segment

VARIABLES
  accepted,     \* polls whose rows the sink has taken responsibility for
  batches       \* the published batches: a set of sets of polls

sinkVars == <<accepted, batches>>

Published == UNION batches

Init ==
  /\ accepted = {}
  /\ batches = {}

Accept(p) ==
  /\ p \notin accepted
  /\ accepted' = accepted \cup {p}
  /\ UNCHANGED batches

Publish(batch) ==
  /\ batch \subseteq accepted \ Published
  /\ batches' = batches \cup {batch}
  /\ UNCHANGED accepted

PublishPoll(p) == \E batch \in SUBSET Polls : p \in batch /\ Publish(batch)

Next ==
  \/ \E p \in Polls : Accept(p)
  \/ \E batch \in SUBSET Polls : Publish(batch)

Safety == Init /\ [][Next]_sinkVars

Spec == Safety /\ \A p \in Healthy : WF_sinkVars(PublishPoll(p))
================================================================================
