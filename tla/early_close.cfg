SPECIFICATION FairSpec
CONSTANTS
  CLIENTS = 1
  IP_PROTOCOLS = 1
  MaxFd = 3
  WildFd = 63
  Faults = {}
PROPERTY ClientGoneIsClosed
