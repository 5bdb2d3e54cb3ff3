SPECIFICATION Spec
CONSTANTS
  MaxEvents = 3
  MaxFaults = 3
  MaxCrashes = 3
INVARIANTS
  JournalSound
CHECK_DEADLOCK FALSE
