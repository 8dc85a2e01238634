SPECIFICATION Spec
CONSTANTS
  Base = 8
  HeaderSize = 2
  TtlSize = 1
  AddressSize <- Sizes
  MaxJumps = 3
  TtlMin = 2
  Messages <- AllMessages
  Null = null
INVARIANTS
  WellFormedDecoded
  CutShortNotMisread
PROPERTIES
  ReaderAdvances
  Ends
CHECK_DEADLOCK FALSE
