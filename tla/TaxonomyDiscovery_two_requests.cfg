SPECIFICATION Spec
CONSTANTS
  Workers = {w1, w2}
  Admins = {r1, r2}
  MaxRetries = 2
  MaxAttempts = 2
  MaxStalled = 1
  LiveStalls = FALSE
INVARIANTS TypeOK UnfinishedHasWork OneDiscovery
CHECK_DEADLOCK FALSE
