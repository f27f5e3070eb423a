SPECIFICATION FairSpec
CONSTANTS
  CounterSize = 32
  Values <- SomeValues
  Credentials <- SomeCredentials
INVARIANTS TypeOK DecodesCredentials
PROPERTY SniffEnds
CHECK_DEADLOCK FALSE
