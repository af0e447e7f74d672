SPECIFICATION Spec
CONSTANTS
  Candidates = {c1}
  Feed = feed
  Workers = {w1, w2}
  Requests = {q1}
  Feeds = TRUE
  Discovers = TRUE
  Crashes = TRUE
  Sources = {s1, s2}
  MaxAttempts = 2
  MaxStalled = 1
  None = None
SYMMETRY Symmetry
INVARIANT PendingIsQueued
PROPERTIES EnabledIsKept ProvisionalIsDeleted RefreshKeepsStatus
CHECK_DEADLOCK FALSE
