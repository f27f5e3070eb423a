SPECIFICATION FairSpec
CONSTANTS
  alice = alice
  Admins = {alice}
  Sizes = {0, 2, 4}
  Memory = 3
  Unreliable = TRUE
  MaxQueries = 2
  MaxMetric = 1
INVARIANTS TypeOK SuccessMeansChanged
PROPERTIES NeverBackwards Answered
CHECK_DEADLOCK FALSE
