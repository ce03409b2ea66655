SPECIFICATION FairSpec
CONSTANTS
  Task = {t1, t2}
  Id = {k1, k2, k3, k4}
  Leases = {0, 3}
  LeaseSkew = 2
  MaxDelay = 1
  MaxClock = 3
  None = None
INVARIANTS
  TypeOK
  NeverRacesExpiry
  AppliedAtMostOnce
  RetryHasAnotherToken
PROPERTIES
  OperationsEnd
CHECK_DEADLOCK FALSE
