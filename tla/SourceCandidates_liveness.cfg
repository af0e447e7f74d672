SPECIFICATION FairSpec
CONSTANTS
  Candidates = {c1}
  Feed = feed
  Workers = {w1}
  Requests = {q1}
  Feeds = FALSE
  Discovers = FALSE
  Crashes = TRUE
  Sources = {s1, s2, s3}
  MaxAttempts = 2
  MaxStalled = 1
  None = None
INVARIANTS CreatorsNeverCollide EnabledWasValidated
PROPERTY CandidateSettles
CHECK_DEADLOCK FALSE
