SPECIFICATION PoolSpec
CONSTANTS
  p1 = p1
  p2 = p2
  c3 = c3
  Processes = {p1, p2}
  Callers = {c1, c2, c3}
  At <- MCAt
  Stores = {s1, s2}
  Configs = {v1, v2}
INVARIANTS
  PoolTypeOK
  OneClientPerStore
PROPERTIES
  BuildersAgree
