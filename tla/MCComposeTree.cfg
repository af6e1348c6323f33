SPECIFICATION MCSpec
CONSTANTS
  u1 = u1
  u2 = u2
  c1 = c1
  c2 = c2
  Uploads = {u1, u2}
  Completions = {c1, c2}
  Limit = 2
  MaxParts = 5
  Ticks = {1, 2}
CHECK_DEADLOCK FALSE
INVARIANTS
  ObjectIsWhole
  FailsForCause
  NothingLeftBehind
PROPERTIES
  CompletionEnds
