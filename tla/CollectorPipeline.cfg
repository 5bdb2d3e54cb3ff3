SPECIFICATION Spec
CONSTANTS
  t1 = t1
  v1 = v1
  v2 = v2
  a1 = a1
  a2 = a2
  Trips <- MC_Trips
  Values <- MC_Values
  Auxiliary <- MC_Auxiliary
  MaxPolls = 3
  MaxDay = 2
  MaxFaults = 2
  MaxRestarts = 1
SYMMETRY MC_Symmetry
INVARIANTS
  StagedRowsReconstruct
  PresenceReplayable
  JournalBacked
  AuxiliaryArchived
  OneFaultLosesNothing
  NoSilentLoss
PROPERTIES
  DeltaFollowsPoll
CHECK_DEADLOCK FALSE
