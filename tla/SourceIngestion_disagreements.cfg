SPECIFICATION Spec
CONSTANTS
  Fetchers = {f1}
  Browsers = {b1}
  Admins = {m1}
  Crashes = FALSE
  LiveStalls = {}
  MaxBucket = 2
  Interval = 1
  MaxAttempts = 3
  MaxStalled = 1
  DegradeAt = 3
  DisableAt = 6
  Web = TRUE
  None = None
INVARIANTS DegradedAfterJobs OneIngestion HealthAgrees
PROPERTIES DisabledStays SuccessStands UpdateKeepsHealth
CHECK_DEADLOCK FALSE
