-------------------------- MODULE MC_ArchiveMaintenance --------------------------
(* A small instance of ArchiveMaintenance. *)
EXTENDS ArchiveMaintenance

CONSTANTS s1, s2, s3

\* One feed with three segments: two parts can be merged while a third segment is
\* still spooled. The last segment is one that no journal event mentions, because
\* its append failed.
MC_Feeds == {1}
MC_Segments == {s1, s2, s3}
MC_FeedOf == [s \in MC_Segments |-> 1]
MC_Journaled == {s1, s2}

\* Two segments suffice to interrupt one compaction.
MC_TwoSegments == {s1, s2}
MC_FeedOfTwo == [s \in MC_TwoSegments |-> 1]
MC_OneJournaled == {s1}

\* Passes in which the clock does not fall between the test of compaction and
\* that of backups: a pending date is compacted before it is backed up.
MC_PunctualNext == Next /\ (SkipCompaction => receipt # None)
MC_Punctual == Init /\ [][MC_PunctualNext]_vars /\ Fairness
================================================================================
