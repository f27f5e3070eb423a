SPECIFICATION FairSpec
CONSTANTS
  CLIENTS = 1
  IP_PROTOCOLS = 2
  MaxFd = 3
  WildFd = 63
  Faults = {"dohConnect", "serverReset"}
INVARIANTS SelectNeverFails FinalMessageAwaitsHttpClient
PROPERTIES RequestSettles ConnectAnswered
