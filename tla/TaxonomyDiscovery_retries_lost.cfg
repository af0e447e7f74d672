SPECIFICATION Spec
CONSTANTS
  Workers = {w1, w2}
  Admins = {r1}
  MaxRetries = 1
  MaxAttempts = 2
  MaxStalled = 1
  LiveStalls = FALSE
PROPERTY RetriesAreCounted
CHECK_DEADLOCK FALSE
