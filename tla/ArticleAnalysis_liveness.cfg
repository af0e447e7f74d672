SPECIFICATION FairSpec
CONSTANTS
  Articles = {a1}
  Workers = {w1, w2}
  Admins = {r1}
  Streams = {s1}
  None = None
  MaxAttempts = 2
  MaxStalled = 1
  LiveStalls = FALSE
  MaxSecondary = 1
PROPERTY PendingSettles
CHECK_DEADLOCK FALSE
