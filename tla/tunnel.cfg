SPECIFICATION FairSpec
CONSTANTS
  ReadSize = 2
  Pending = 1
  MaxEarly = 1
  MaxBytes = 3
INVARIANTS TypeOK Conserved BytesCounted
PROPERTIES ImplementsRelay Delivered EndsAfterServer
CHECK_DEADLOCK FALSE
