SPECIFICATION Spec
CONSTANTS
  a2 = a2
  m1 = m1
  m2 = m2
  s2 = s2
  t1 = t1
  t2 = t2
  None = None
  Tenants = {t1, t2}
  Owner <- MCOwner
  Buckets = {b1}
  Stores = {s1}
  MappingIds = {m1}
  Configs = {c1}
  Modes = {proxy}
  Prefixes = {team}
  Origins = {o1}
  Requests = {r1}
  Admins = {a1}
  Faults = FALSE
INVARIANTS
  DeletedStoreIsEvicted
