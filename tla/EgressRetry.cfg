SPECIFICATION Spec
CONSTANTS
  s1 = s1
  s2 = s2
  s3 = s3
  Ids = {r1}
  Services = {s1, s2, s3}
  ServiceLists <- PairOfThree
  Sessions = {g1, g2}
  Calls = {c1, c2, c3}
  Contents = {x1, x2}
  Hosts = {h1}
  None = None
  Retry = TRUE
  Parallel = TRUE
SYMMETRY Symmetry
INVARIANTS OnlyUnanimousForwarded CallDecidedOnce NoLostWakeup
CHECK_DEADLOCK FALSE
