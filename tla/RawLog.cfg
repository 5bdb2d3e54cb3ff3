SPECIFICATION Spec
CONSTANTS
  MaxPolls = 3
  MaxFaults = 2
  MaxCrashes = 2
INVARIANTS
  AckedReadable
  TailsPreserved
  ExporterHoldsCommitted
