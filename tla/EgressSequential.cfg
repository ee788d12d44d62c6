SPECIFICATION Spec
CONSTANTS
  s1 = s1
  s2 = s2
  s3 = s3
  Ids = {r1, r2}
  Services = {s1, s2, s3}
  ServiceLists <- PairOrTriple
  Sessions = {g1, g2}
  Calls = {c1, c2, c3, c4}
  Contents = {x1, x2}
  Hosts = {h1}
  None = None
  Retry = FALSE
  Parallel = FALSE
SYMMETRY Symmetry
INVARIANTS TypeOK AnswersOwnRound NoOrphanLoop
PROPERTIES ImplementsGate NoRoundAfterStop
CHECK_DEADLOCK FALSE
