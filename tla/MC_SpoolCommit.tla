---------------------------- MODULE MC_SpoolCommit ----------------------------
(* Small instances of SpoolCommit. *)
EXTENDS SpoolCommit

\* Two partitions.  The first, which every flush visits first, holds a corrupt
\* segment and one that can only be committed before the corrupt one is staged.
\* The second takes two commits at a batch size of two, and names staged late
\* may sort before pending ones.
MC_Segments == 1..5
MC_Groups == {1, 2}
MC_GroupOf == [s \in MC_Segments |-> IF s <= 2 THEN 1 ELSE 2]
================================================================================
