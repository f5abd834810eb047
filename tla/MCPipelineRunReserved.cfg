CONSTANTS
  Workers = {w1}
  NoOwner = NoOwner
  Concurrency <- Ones
  LeaseTTL = 1
  Origins = {"encrypted"}
  Fickle = FALSE
  Broken = {}
  MaxGen = 1
  MaxTroubles = 0
SPECIFICATION Spec
CHECK_DEADLOCK FALSE
INVARIANTS
  RegistrationIsKept
