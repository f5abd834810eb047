CONSTANTS
  Workers = {w1, w2}
  NoOwner = NoOwner
  Concurrency <- Ones
  LeaseTTL = 1
  Origins = {"plain"}
  Fickle = FALSE
  Broken = {}
  MaxGen = 1
  MaxTroubles = 1
SPECIFICATION Spec
CHECK_DEADLOCK FALSE
INVARIANTS
  ActiveIsSearchable
