SPECIFICATION FairSpec
CONSTANTS
  Conns = {c1}
  NumAddrs = 2
  SecureAddrs <- SecondSecure
  Requests <- AllRequests
  RequestHead <- SplitHead
  InactivityOn = TRUE
  Stalls = TRUE
  MaxUp = 1
INVARIANTS
  PayloadIntact
PROPERTIES
  UpstreamFollowsClient
  ConnectionForgotten
  DownstreamReleased
  StopEnds
CHECK_DEADLOCK FALSE
