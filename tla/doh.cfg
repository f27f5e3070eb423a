SPECIFICATION FairSpec
CONSTANTS
  Hosts <- SomeHosts
  Zones <- SomeZones
  Parts = {1, 12}
  Cuts = {0, 33, 36, 55}
  MaxFailures = 1
  ProxyPort = 8080
  OwnAddresses <- Own
INVARIANTS TypeOK AddressesAreTheHosts
PROPERTIES ImplementsLookup LookupEnds
CHECK_DEADLOCK FALSE
