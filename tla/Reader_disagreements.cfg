SPECIFICATION SumSpec
CONSTANTS
  None = None
  Users = {u1, u2}
  Stories = {x1}
  Contexts = {c1, c2}
  Operators = {o1}
  Linked = {x1, x2}
  ActionTypes = {save}
  Generators = {g1, g2, g3}
  Offsets <- Zones
  Shifts <- Hours
  Transitions <- Nights
  LastDay = 3
  MaxDays = 2
  Technologies = {t1, t2}
  Interests = {i1}
  Topics = {s1}
  MaxInteractions = 3
  Tokens = {t1, t2, t3}
  Newcomers = {u1}
  RowKinds = {technology}
  Names = {n1, n2, n3}
  Similar = {{n1, n2}}
  Rows = {r1, r2, r3}
  Streams = {s1, s2}
  MaxSelected = 1
  Limit = 1
  Catalogs <- OneOrThree
  Requests = {q1, q2}
  MaxActions = 4
  MaxCalls = 3
  MaxCommands = 2
  s1 = s1
  s2 = s2
  n1 = n1
  n2 = n2
  n3 = n3
  r1 = r1
  r2 = r2
  r3 = r3
  technology = technology
SYMMETRY Symmetry
INVARIANTS
  OpensCountReaders ActionsAreComplete OnlyMidnightTransitionsMisjudged
  CreationsAreCounted NewRowsAreDiscovered SelectionsAreLimited LinksAreLive
PROPERTY VerifiedStays
CHECK_DEADLOCK FALSE
