SPECIFICATION FairSpec
CONSTANTS
  Main = main
  Workers = {w1, w2}
  Forks <- NoneOrAll
  NumAddrs = 2
  MaxSignals = 2
INVARIANTS
  TypeOK
  SignalIsGraceful
  ExitAfterClose
PROPERTIES
  SignalEndsAll
CHECK_DEADLOCK FALSE
