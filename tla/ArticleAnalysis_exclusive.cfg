SPECIFICATION Spec
CONSTANTS
  Articles = {a1}
  Workers = {w1, w2}
  Admins = {r1, r2}
  Streams = {s1}
  None = None
  MaxAttempts = 2
  MaxStalled = 1
  LiveStalls = FALSE
  MaxSecondary = 1
SYMMETRY Symmetry
INVARIANTS TypeOK PendingHasWork OneExecution AnalyzedIsComplete PrimaryAgreesWithMain
PROPERTY FullAnalysisIsKept
CHECK_DEADLOCK FALSE
