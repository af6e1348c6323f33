SPECIFICATION FairSpec
CONSTANTS
  Keys <- MCKeys
  Up <- MCUp
  Sizes = {1, 2}
  Kinds = {"s3", "gcs", "azure", "local"}
INVARIANTS
  TypeOK
  EveryKeyListed
  NoEntryTwice
  NothingElse
PROPERTIES
  WalkEnds
