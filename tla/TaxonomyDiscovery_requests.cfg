SPECIFICATION FairSpec
CONSTANTS
  Workers = {w1, w2}
  Admins = {r1}
  MaxRetries = 2
  MaxAttempts = 2
  MaxStalled = 1
  LiveStalls = FALSE
INVARIANTS TypeOK UnfinishedHasWork OneDiscovery
PROPERTY RequestSettles
CHECK_DEADLOCK FALSE
