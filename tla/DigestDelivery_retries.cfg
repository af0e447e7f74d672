SPECIFICATION FairSumSpec
CONSTANTS
  Components = {"digest", "cache"}
  Readers = {q1, q2}
  Writers = {u1}
  MaxChanges = 2
  MaxArticles = 1
  MaxReads = 2
  Workers = {w1, w2}
  Sweepers = {s1}
  Previews = {}
  Resends = {}
  DayTicks = 2
  Cap = 2
  MaxDay = 1
  MaxAttempts = 2
  MaxStalled = 1
  LiveStalls = TRUE
  Crashes = TRUE
  None = None
INVARIANTS TypesOK ChangesShow
PROPERTIES BuiltOnce JobsSettle PagesCatchUp
CHECK_DEADLOCK FALSE
