SPECIFICATION Spec
CONSTANTS
  Exporters = {1, 2}
  Window = 1
  MaxAge = 0
  MaxTime = 1
  MaxPolls = 3
INVARIANTS
  HealthyIsPublished
  PollingOnce
PROPERTIES
  NeverOlder
CHECK_DEADLOCK FALSE
