CONSTANTS
  Workers = {w1, w2}
  NoOwner = NoOwner
  Concurrency <- OneTakesTwo
  LeaseTTL = 1
  Origins = {"encrypted", "legacy"}
  Fickle = FALSE
  Broken = {}
  MaxGen = 2
  MaxTroubles = 1
SPECIFICATION FairSpec
CHECK_DEADLOCK FALSE
INVARIANTS
  TypeOK
  IndexedIsPublished
  OneReadyGeneration
PROPERTIES
  ReadyIsNeverHidden
  LiveAttemptIsUndisturbed
  RunsSettle
