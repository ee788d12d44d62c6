SPECIFICATION SysSpec
CONSTANTS
  s1 = s1
  s2 = s2
  s3 = s3
  x1 = x1
  x2 = x2
  Ids = {r1}
  Services = {s1, s2}
  ServiceLists <- PairEitherOrder
  Sessions = {a1}
  Calls = {c1, c2}
  Contents = {x1, x2}
  Hosts = {h1}
  None = None
  Retry = FALSE
  Parallel = TRUE
  Concurrency = 2
  Honest = {s1, s2}
  Program <- OneCall
  Faults = {"variant"}
INVARIANTS EndedIsNoticed
CHECK_DEADLOCK FALSE
