SPECIFICATION Spec
CONSTANTS
  CLIENTS = 2
  IP_PROTOCOLS = 1
  MaxFd = 3
  WildFd = 2
  Faults = {"dohConnect", "clientReset", "serverReset"}
INVARIANTS TypeOK Ownership ConcurrentCounts MaxSocketCovers
PROPERTY ImplementsLifecycle
