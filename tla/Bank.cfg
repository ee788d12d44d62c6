SPECIFICATION FairSpec
CONSTANTS
  alice = alice
  bob = bob
  stranger = stranger
  elsewhere = elsewhere
  Users = {alice, bob}
  Strangers = {stranger}
  Absent = Absent
  EmptyString = EmptyString
  None = None
  TimedOut = TimedOut
  MaxTimeouts = 1
  Identities <- TestedIdentities
  VariantNames <- Languages
  Resources <- TestedResources
  Orders <- TestedOrders
  Requests <- TestedRequests
  Egress = Egress
  NoAction = NoAction
  Addresses = {Egress, elsewhere}
  Configs <- TestedConfigs
  Spellings <- TestedSpellings
  Bare <- TestedBare
  Ignored = {"Date"}
  HeaderValues = {1, 2}
  MaxReplies = 3
INVARIANTS BankTypeOK EffectsJustified PlainRequestsAgree RepliesTellTheEvent AdmittedDraws RoutedToEgress VerdictIsAgreement
PROPERTIES RequestAnswered
CHECK_DEADLOCK FALSE
