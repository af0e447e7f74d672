SPECIFICATION SumSpec
CONSTANTS
  Components = {"digest"}
  Readers = {q1, q2}
  Writers = {u1}
  MaxChanges = 2
  MaxArticles = 1
  MaxReads = 2
  Workers = {w1}
  Sweepers = {s1}
  Previews = {p1}
  Resends = {r1}
  DayTicks = 1
  Cap = 1
  MaxDay = 2
  MaxAttempts = 1
  MaxStalled = 1
  LiveStalls = FALSE
  Crashes = FALSE
  None = None
SYMMETRY Symmetry
INVARIANTS PeriodsFollowScheduledMail
PROPERTY KeepsPromise
CHECK_DEADLOCK FALSE
