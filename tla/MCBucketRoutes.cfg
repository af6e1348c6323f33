SPECIFICATION MCSpec
CONSTANTS
  a2 = a2
  m1 = m1
  m2 = m2
  s2 = s2
  t1 = t1
  t2 = t2
  None = None
  Tenants = {t1, t2}
  Owner <- MCOwner
  Buckets = {b1}
  Stores = {s1, s2}
  MappingIds = {m1, m2}
  Configs = {c1, c2}
  Modes = {proxy}
  Prefixes = {team}
  Origins = {o1}
  Requests = {r1}
  Admins = {a1, a2}
  Faults = TRUE
INVARIANTS
  TypeOK
  StaleOnlyIfSuspect
  RouteWasCurrent
  TenantIsolation
PROPERTIES
  EventuallyFresh
