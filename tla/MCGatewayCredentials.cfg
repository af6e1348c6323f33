SPECIFICATION GatewaySpec
CONSTANTS
  t1 = t1
  p1 = p1
  None = None
  Tenants = {t1}
  Owner <- MCOwner
  Buckets = {b1}
  Stores = {s1}
  MappingIds = {m1}
  Configs = {c1, c2}
  Modes = {proxy}
  Prefixes = {team}
  Origins = {o1}
  Requests = {r1}
  Browsers = {}
  Admins = {a1}
  Processes = {p1}
  At <- MCAt
  Faults = FALSE
INVARIANTS
  CredentialsTakeEffect
