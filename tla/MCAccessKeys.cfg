SPECIFICATION FairSpec
CONSTANTS
  t1 = t1
  NoKey = NoKey
  Keys = {k1}
  Tenants = {t1, t2}
  Owner <- MCOwner
  Requests = {r1, r2}
  Admins = {a1, a2}
  Faults = TRUE
INVARIANTS
  TypeOK
  StaleOnlyIfSuspect
  AccessWasGranted
PROPERTIES
  EventuallyFresh
