SPECIFICATION FairSpec
CONSTANTS
  MasterKeys = {k1, k2}
  FirstKey = k1
  Stores = {s1, s2}
  AccessKeys = {a1}
  Gateways = {g1}
INVARIANTS
  TypeOK
  OneKey
  FlushedIsFresh
PROPERTIES
  RefusedForCause
  EventuallyDecrypts
