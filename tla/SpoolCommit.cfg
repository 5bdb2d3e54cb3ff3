SPECIFICATION Spec
CONSTANTS
  Segments <- MC_Segments
  Groups <- MC_Groups
  GroupOf <- MC_GroupOf
  MaxBatch = 2
  Corrupt = {2}
  MaxFaults = 2
  MaxRestarts = 2
INVARIANTS
  NothingLost
  ExactlyOnce
PROPERTIES
  CleanFlushIsClean
  ImplementsSink
  HealthyGroupsDrain
