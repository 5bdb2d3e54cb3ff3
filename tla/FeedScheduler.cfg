SPECIFICATION Spec
CONSTANTS
  Feeds <- MC_Feeds
  Interval <- MC_Interval
  Hung <- MC_Hung
  MaxTime = 4
INVARIANTS
  DeadlinesAccounted
  ReportedOnceInOrder
  BacklogBounded
  DrainedAtExit
PROPERTIES
  ShutdownCompletes
  EveryPollHandled
  IndependentFeeds
CHECK_DEADLOCK FALSE
