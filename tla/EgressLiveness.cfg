SPECIFICATION FairSpec
CONSTANTS
  s1 = s1
  s2 = s2
  s3 = s3
  Ids = {r1}
  Services = {s1, s2}
  ServiceLists <- Pair
  Sessions = {g1}
  Calls = {c1, c2, c3, c4}
  Contents = {x1, x2}
  Hosts = {h1}
  None = None
  Retry = FALSE
  Parallel = FALSE
PROPERTIES CompleteRoundDecided DecidedCallAnswered
CHECK_DEADLOCK FALSE
