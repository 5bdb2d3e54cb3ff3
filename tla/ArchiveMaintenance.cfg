SPECIFICATION Spec
CONSTANTS
  s1 = s1
  s2 = s2
  s3 = s3
  Feeds <- MC_Feeds
  Segments <- MC_Segments
  FeedOf <- MC_FeedOf
  Journaled <- MC_Journaled
  MinFiles = 2
  MaxFaults = 1
  MaxCrashes = 1
INVARIANTS
  NothingLost
  RowsReadOnce
  TransactionsResumable
  EvictionResumable
PROPERTIES
  ImplementsArchive
  CleanDatesEvicted
