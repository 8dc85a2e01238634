SPECIFICATION Spec
CONSTANTS
  Conns = {c1, c2}
  NumAddrs = 2
  SecureAddrs <- SecondSecure
  Requests <- Lifecycle
  RequestHead <- WholeHead
  InactivityOn = TRUE
  Stalls = TRUE
  MaxUp = 0
SYMMETRY ConnSymmetry
INVARIANTS
  TypeOK
  PairTeardown
  StopReachesAll
  StopIsComplete
  EvasionApplied
PROPERTIES
  NoRevival
CHECK_DEADLOCK FALSE
