SPECIFICATION MCSpec
CONSTANTS
  s1 = s1
  s2 = s2
  t1 = t1
  t2 = t2
  p1 = p1
  p2 = p2
  r1 = r1
  r2 = r2
  None = None
  Tenants = {t1, t2}
  Owner <- MCOwner
  Buckets = {b1}
  Stores = {s1, s2}
  MappingIds = {m1, m2}
  Configs = {c1, c2}
  Modes = {proxy}
  Prefixes = {team}
  Origins = {o1}
  Requests = {r1, r2}
  Browsers = {x1}
  Admins = {a1}
  Processes = {p1, p2}
  At <- MCAt
  Faults = TRUE
SYMMETRY Symmetry
INVARIANTS
  OldClientIsExcused
  ClientOfTenant
