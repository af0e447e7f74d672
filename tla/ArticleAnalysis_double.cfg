SPECIFICATION Spec
CONSTANTS
  Articles = {a1}
  Workers = {w1, w2}
  Admins = {r1}
  Streams = {s1}
  None = None
  MaxAttempts = 2
  MaxStalled = 1
  LiveStalls = TRUE
  MaxSecondary = 0
SYMMETRY Symmetry
INVARIANT PendingHasWork
PROPERTY VerdictIsFinal
CHECK_DEADLOCK FALSE
