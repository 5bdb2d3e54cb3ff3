-------------------------- MODULE MC_BackupBacklog --------------------------
EXTENDS BackupBacklog

MC_Dates == 1..2
=============================================================================
