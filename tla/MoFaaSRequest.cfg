SPECIFICATION SysFairSpec
CONSTANTS
  s1 = s1
  s2 = s2
  s3 = s3
  x1 = x1
  x2 = x2
  Ids = {r1}
  Services = {s1, s2, s3}
  ServiceLists <- AnyPair
  Sessions = {a1}
  Calls = {c1, c2, c3, c4}
  Contents = {x1, x2}
  Hosts = {h1}
  None = None
  Retry = FALSE
  Parallel = TRUE
  Concurrency = 2
  Honest = {s1, s2}
  Program <- TwoCalls
  Faults = {"post", "status", "variant", "round"}
INVARIANTS SysTypeOK EffectsFollowProgram DoneMeansDone PairedInOrder
PROPERTIES HonestRequestServed
CHECK_DEADLOCK FALSE
