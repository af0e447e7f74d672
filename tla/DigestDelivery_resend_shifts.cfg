SPECIFICATION SumSpec
CONSTANTS
  Components = {"digest"}
  Readers = {q1, q2}
  Writers = {u1}
  MaxChanges = 2
  MaxArticles = 1
  MaxReads = 2
  Workers = {w1}
  Sweepers = {s1}
  Previews = {}
  Resends = {r1}
  DayTicks = 2
  Cap = 2
  MaxDay = 1
  MaxAttempts = 2
  MaxStalled = 1
  LiveStalls = FALSE
  Crashes = FALSE
  None = None
SYMMETRY Symmetry
PROPERTY ResendKeepsPeriod
CHECK_DEADLOCK FALSE
