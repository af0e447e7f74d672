SPECIFICATION FairSpec
CONSTANTS
  Fetchers = {f1}
  Browsers = {b1, b2}
  Admins = {}
  Crashes = TRUE
  LiveStalls = {f1, b1}
  MaxBucket = 1
  Interval = 1
  MaxAttempts = 2
  MaxStalled = 1
  DegradeAt = 2
  DisableAt = 3
  Web = TRUE
  None = None
INVARIANTS StatusMatchesFailures OneWriterPerRow
PROPERTY JobsSettle
CHECK_DEADLOCK FALSE
