SPECIFICATION Spec
CONSTANTS
  LF = LF
  CR = CR
  SP = SP
  HOST = HOST
  MIXED = MIXED
  SEP = SEP
  NL = NL
  Methods = {"get", "connect"}
  Connect = "connect"
  Targets = {"url", "URL"}
  Versions = {"v1"}
  Words = {"w"}
  Names = {"h", "H", "o"}
  Lower <- LowerCase
  HostOf <- TargetHosts
  Lists <- HostLists
  HANDSHAKE = HANDSHAKE
  TlsVersion <- Version
  Sizes <- HelloSizes
  Hellos <- SecondChunks
  Chunks <- CutInWords
INVARIANTS
  NewlinesSeparateLines
CHECK_DEADLOCK FALSE
