------------------------- MODULE MC_CollectorPipeline --------------------------
(* The pipeline's data is symmetric: a value or an auxiliary state is only ever    *)
(* compared with another one.                                                      *)
EXTENDS CollectorPipeline, TLC

CONSTANTS t1, v1, v2, a1, a2

MC_Trips == {t1}
MC_Values == {v1, v2}
MC_Auxiliary == {a1, a2}
MC_Symmetry == Permutations(MC_Values) \cup Permutations(MC_Auxiliary)
================================================================================
