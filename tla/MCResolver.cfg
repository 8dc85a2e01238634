SPECIFICATION Spec
CONSTANTS
  Calls = {c1, c2}
  Hosts = {h1}
  Addresses <- TwoAddresses
  Override <- OneOverride
  Conns = {k1, k2, k3}
  NoConn = undefined
  Null = null
  Missing = missing
  Configs <- AllConfigs
  MaxRetries = 1
  Quiet = TRUE
SYMMETRY Symmetry
INVARIANTS
  TypeOK
  CallsFollowLookups
  OnePersistentClient
  AddressesOverridden
  DotSocketsReleased
PROPERTIES
  PinnedAnswers
  NoQuestionToTheGone
CHECK_DEADLOCK FALSE
