SPECIFICATION Spec
CONSTANTS
  CHUNK = 2
  InitialSize = 3
  Byte = {0, 1, 2}
  Input <- Inputs
  MaxFrom = 6
INVARIANTS TypeOK WrittenInside
PROPERTY ImplementsQueue
