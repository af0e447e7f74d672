SPECIFICATION Spec
CONSTANTS
  Articles = {a1}
  Workers = {w1, w2}
  Admins = {}
  Streams = {s1}
  None = None
  MaxAttempts = 2
  MaxStalled = 1
  LiveStalls = TRUE
  MaxSecondary = 1
INVARIANT PrimaryAgreesWithMain
CHECK_DEADLOCK FALSE
