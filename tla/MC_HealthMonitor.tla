-------------------------- MODULE MC_HealthMonitor --------------------------
EXTENDS HealthMonitor, TLC

CONSTANTS alerts, trips

MC_Interval == (alerts :> 2) @@ (trips :> 1)
MC_Times == {0, 3, 6, 8}

\* Values of signals are only compared for equality.
MC_Symmetry == Permutations(Values)
=============================================================================
