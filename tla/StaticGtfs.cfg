SPECIFICATION Spec
CONSTANTS
  Versions = {v1, v2}
  LegacyDates <- MC_LegacyDates
  Horizon = 2
  Interval = 2
  MaxTime = 4
  MaxFaults = 2
  MaxCrashes = 1
INVARIANTS
  VersionsKept
  OneTearLosesOne
  TimelineAgrees
CHECK_DEADLOCK FALSE
