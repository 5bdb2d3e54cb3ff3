SPECIFICATION MC_Punctual
CONSTANTS
  s1 = s1
  s2 = s2
  s3 = s3
  Feeds <- MC_Feeds
  Segments <- MC_TwoSegments
  FeedOf <- MC_FeedOfTwo
  Journaled <- MC_OneJournaled
  MinFiles = 2
  MaxFaults = 1
  MaxCrashes = 1
PROPERTIES
  MarkerCompletesCleanup
