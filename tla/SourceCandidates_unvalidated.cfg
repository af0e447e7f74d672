SPECIFICATION Spec
CONSTANTS
  Candidates = {c1}
  Feed = feed
  Workers = {w1}
  Requests = {}
  Feeds = TRUE
  Discovers = TRUE
  Crashes = FALSE
  Sources = {s1, s2}
  MaxAttempts = 2
  MaxStalled = 1
  None = None
SYMMETRY Symmetry
INVARIANT ActiveWasValidated
CHECK_DEADLOCK FALSE
