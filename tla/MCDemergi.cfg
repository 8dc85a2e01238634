SPECIFICATION FairSpec
CONSTANTS
  Conns = {c1}
  NumAddrs = 1
  SecureAddrs <- NoSecure
  Requests <- FetchOrNot
  RequestHead <- WholeHead
  InactivityOn = TRUE
  Stalls = TRUE
  MaxUp = 0
  Hosts = {h1}
  Addresses <- TwoAddresses
  Override <- OneOverride
  Links = {k1, k2}
  NoLink = undefined
  Null = null
  Missing = missing
  Configs <- SomeConfigs
  MaxRetries = 1
  Quiet = TRUE
INVARIANTS
  LookupFindsSocket
PROPERTIES
  CallSettles
  AttemptsEnd
CHECK_DEADLOCK FALSE
