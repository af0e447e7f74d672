SPECIFICATION FairSpec
CONSTANTS
  Fetchers = {f1}
  Browsers = {b1, b2}
  Admins = {m1}
  Crashes = TRUE
  LiveStalls = {b1}
  MaxBucket = 1
  Interval = 1
  MaxAttempts = 1
  MaxStalled = 1
  DegradeAt = 2
  DisableAt = 3
  Web = TRUE
  None = None
INVARIANTS StatusMatchesFailures OneWriterPerRow
PROPERTY JobsSettle
CHECK_DEADLOCK FALSE
