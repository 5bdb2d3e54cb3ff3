SPECIFICATION TrackerSpec
CONSTANTS
  Null = Null
  k1 = k1
  Keys = {k1}
  Fields <- MC_Fields
  Values <- MC_Values
  Tolerance <- MC_Tolerance
  Required = {"delay"}
  Heartbeat = 2
  Sweep = 1
  NullRows = 2
  DayLength = 3
  Times <- MC_Times
  MaxRows = 2
  MaxResponses = 4
  MaxRestarts = 1
INVARIANTS
  NoDrift
CHECK_DEADLOCK FALSE
