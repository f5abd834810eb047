CONSTANTS
  Procs = {"p1", "p2"}
  Cleaners = {"dsar", "near", "far"}
  Reconcilers = {"near", "far"}
  Sweepers = {"sweep"}
  Indexers = {"index"}
  Home <- MCHome
  Teams <- MCTeams
  NoOwner = NoOwner
  LeaseTTL = 1
  MaxTroubles = 1
SPECIFICATION FairSpec
CHECK_DEADLOCK FALSE
INVARIANTS TypeOK NamedLeftoversAreOwed
PROPERTIES IntentComesFirst SucceededIsFinal ErasureIsFinished
