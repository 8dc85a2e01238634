SPECIFICATION Spec
CONSTANTS
  Conns = {c1}
  NumAddrs = 1
  SecureAddrs <- NoSecure
  Requests <- AllRequests
  RequestHead <- SplitHead
  InactivityOn = TRUE
  Stalls = TRUE
  MaxUp = 0
INVARIANTS
  HelloFragmented
CHECK_DEADLOCK FALSE
