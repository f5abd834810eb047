CONSTANTS
  Workers = {w1}
  NoOwner = NoOwner
  Concurrency <- Ones
  LeaseTTL = 1
  Origins = {"plain"}
  Fickle = FALSE
  Broken = {1}
  MaxGen = 2
  MaxTroubles = 0
SPECIFICATION FairSpec
CHECK_DEADLOCK FALSE
PROPERTIES
  QueuedIsServed
