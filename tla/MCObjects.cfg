SPECIFICATION MCSpec
CONSTANTS
  k1 = k1
  k2 = k2
  p1 = p1
  p2 = p2
  Keys = {k1, k2}
  Puts = {p1, p2}
  Gets = {g1}
  In <- MCIn
  Kinds = {"s3", "gcs", "azure", "local"}
  Bodies <- MCBodies
  Rooms = {2}
  Asked <- MCAsked
  Width = 3
INVARIANTS
  TypeOK
  BodyIsDecoded
  AckedIsStored
  StoredIsWhole
  OneVersion
  BrokenForCause
  DeletedIsGone
PROPERTIES
  PutReturns
