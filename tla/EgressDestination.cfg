SPECIFICATION Spec
CONSTANTS
  s1 = s1
  s2 = s2
  s3 = s3
  Ids = {r1}
  Services = {s1, s2}
  ServiceLists <- Pair
  Sessions = {g1}
  Calls = {c1, c2}
  Contents = {x1}
  Hosts = {h1, h2}
  None = None
  Retry = FALSE
  Parallel = FALSE
INVARIANTS OriginalDestination
CHECK_DEADLOCK FALSE
