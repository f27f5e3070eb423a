SPECIFICATION Spec
CONSTANTS
  CLIENTS = 2
  IP_PROTOCOLS = 1
  MaxFd = 4
  WildFd = 63
  Faults = {}
INVARIANT SelectNeverFails
